---- MODULE Spec2Model ----
(***************************************************************************)
(* A model of the barcode renderer: the Barcode class (src/lib/Barcode.js), *)
(* the BarcodeBitmap encoder (lib/BarcodeBitmap.js), the Text renderer      *)
(* (src/lib/Text.js), the BitmapCanvas of the page (lib/BitmapCanvas.js)    *)
(* and the bitmap of the original program (original-code/barcode.c).       *)
(*                                                                         *)
(* Strings are sequences of character codes, so that charCodeAt, the       *)
(* string comparisons and the regular expressions of the source are        *)
(* computed as the source computes them.  Source indices are 0-based: At.  *)
(* A bitmap is the record of how it was drawn (the private maker that drew *)
(* it, the digits handed to it, its size and the rectangles copied into    *)
(* it); a call's result is [ok, val] when it returns and [ok, err] when it *)
(* throws.                                                                 *)
(***************************************************************************)
EXTENDS Integers, Sequences, FiniteSets, TLC

VARIABLES
    short,              \* Barcode.#short
    mainFormat,         \* Barcode.#mainFormat
    mainDigits,         \* Barcode.#mainDigits
    supplementDigits,   \* Barcode.#supplementDigits
    title,              \* Barcode.#title
    mainBitmap,         \* Barcode.#mainBitmap
    supplementBitmap,   \* Barcode.#supplementBitmap
    titleBitmap,        \* Barcode.#titleBitmap
    outcome,            \* what the last render() call gave its caller
    dest,               \* barcode.c: a Bitmap that is read and written
    src,                \* barcode.c: the Bitmap that bitmapCopyRect reads
    lastCall,           \* barcode.c: the latest call on dest and its result
    calls,              \* barcode.c: the number of calls made on dest
    textStr,            \* Text.makeBitmap: its argument str
    textMaxWidth,       \* Text.makeBitmap: its argument maxWidth
    textPc,             \* Text.makeBitmap: where the call is
    textLines,          \* Text.#wrapText: the lines the for loop has left
    textLine,           \* Text.#wrapText: line
    textResult,         \* Text.#wrapText: result
    textBitmap,         \* Text.makeBitmap: the bitmap it asked for
    canvasBitmap,       \* BitmapCanvas.#bitmap
    canvasImageBitmap,  \* BitmapCanvas.#imageBitmap
    conversions,        \* the createImageBitmap() promises not yet settled
    assignments,        \* the number of assignments to BitmapCanvas.bitmap
    canvasDrawn         \* what the latest renderCanvas() drew

barcodeVars == <<short, mainFormat, mainDigits, supplementDigits, title,
                 mainBitmap, supplementBitmap, titleBitmap, outcome>>
bitmapVars == <<dest, src, lastCall, calls>>
textVars == <<textStr, textMaxWidth, textPc, textLines, textLine, textResult,
              textBitmap>>
canvasVars == <<canvasBitmap, canvasImageBitmap, conversions, assignments,
                canvasDrawn>>
vars == <<barcodeVars, bitmapVars, textVars, canvasVars>>

----------------------------------------------------------------------------
(* Characters and strings *)

CHAR0 == 48
QMARK == 63
NEWLINE == 10
SPACE == 32

\* A string of decimal digits, from the digits' values.
DigitStr(ds) == [i \in 1..Len(ds) |-> CHAR0 + ds[i]]

\* s[i] of the source (0-based).
At(s, i) == s[i + 1]

\* s.slice(from, to) for 0 <= from.
Slice(s, from, to) ==
    LET e == IF to > Len(s) THEN Len(s) ELSE to
    IN  IF from >= e THEN <<>> ELSE [i \in 1..(e - from) |-> s[from + i]]

IsDigitChar(c) == c >= CHAR0 /\ c <= CHAR0 + 9
IsDigitOrQ(c) == c = QMARK \/ IsDigitChar(c)

\* Characters from..to (0-based, inclusive) of s all match [0-9].
AllDigits(s, from, to) == \A i \in from..to : IsDigitChar(At(s, i))

\* String(n) for a non-negative integer.
RECURSIVE String(_)
String(n) ==
    IF n < 10 THEN <<CHAR0 + n>> ELSE String(n \div 10) \o <<CHAR0 + (n % 10)>>

\* s.replace(/[?]/, rep): the first '?' of s, if any, becomes rep.
ReplaceQ(s, rep) ==
    LET hits == {i \in 1..Len(s) : s[i] = QMARK}
    IN  IF hits = {} THEN s
        ELSE LET k == CHOOSE i \in hits : \A j \in hits : i <= j
             IN  SubSeq(s, 1, k - 1) \o rep \o SubSeq(s, k + 1, Len(s))

----------------------------------------------------------------------------
(* Results, errors, bitmaps *)

\* new Bitmap(width, height), nothing drawn into it but the rectangles
\* copied.  vlins, bars and chars are the vlin, #drawUpcEanDigit and
\* #drawDigitChar calls made on it.
Bitmap(kind, str, width, height, rects) ==
    [kind |-> kind, str |-> str, width |-> width, height |-> height,
     rects |-> rects, vlins |-> {}, bars |-> {}, chars |-> {}]

\* JavaScript's null.
Null == Bitmap("null", <<>>, 0, 0, <<>>)

Return(v) == [ok |-> TRUE, val |-> v]

\* throw new <name>(<message>); format and digits are what a template
\* message interpolates.
ThrowWith(name, message, format, digits) ==
    [ok |-> FALSE,
     err |-> [name |-> name, message |-> message, format |-> format,
              digits |-> digits]]

Throw(message) == ThrowWith("Error", message, "", <<>>)

----------------------------------------------------------------------------
(* BarcodeBitmap: helpers *)

\* BarcodeBitmap.#charToDigit
charToDigit(c) ==
    LET result == c - CHAR0
    IN  IF (result >= 0) /\ (result <= 9) THEN result ELSE 0

\* mul ^= 2
XorTwo(mul) == IF (mul \div 2) % 2 = 1 THEN mul - 2 ELSE mul + 2

\* The checksum loop: for (i = 0; i < count; i++) { sum += digit * mul;
\* mul ^= 2; }, from the given i, mul and sum.
RECURSIVE checksumLoop(_, _, _, _, _)
checksumLoop(digits, count, i, mul, sum) ==
    IF i < count
        THEN checksumLoop(digits, count, i + 1, XorTwo(mul),
                          sum + charToDigit(At(digits, i)) * mul)
        ELSE sum

\* String((10 - (sum % 10)) % 10)
checksumString(sum) == String((10 - (sum % 10)) % 10)

\* BarcodeBitmap.#upcEanSupplementWidth
upcEanSupplementWidth(digits) ==
    CASE Len(digits) = 2 -> 20
      [] Len(digits) = 5 -> 47
      [] OTHER -> 0

\* new BarcodeBitmap(width, height) drawn by the named private maker.
BarcodeBitmap(kind, digits, width, height) ==
    Bitmap(kind, digits, width, height, <<>>)

----------------------------------------------------------------------------
(* BarcodeBitmap: drawing *)

\* The static tables, indexed from 0 by At.
upcLeftA == <<13, 25, 19, 61, 35, 49, 47, 59, 55, 11>>
upcLeftB == <<39, 51, 27, 33, 29, 57, 5, 17, 9, 23>>
\* A Right table whose entries are the Right patterns read from right to
\* left.
upcRight_reflected == <<39, 51, 27, 33, 29, 57, 5, 17, 9, 23>>
upcRight == <<114, 102, 108, 66, 92, 78, 80, 68, 72, 116>>
\* A first-digit table whose entry for 0 asks for one Left-B digit.
ean13FirstDigit_zeroHasLeftB == <<1, 11, 13, 14, 19, 25, 28, 21, 22, 26>>
ean13FirstDigit == <<0, 11, 13, 14, 19, 25, 28, 21, 22, 26>>
upcELastDigit == <<56, 52, 50, 49, 44, 38, 35, 42, 41, 37>>

\* n & (1 << i) is not zero, for n >= 0.
BitSet(n, i) == (n \div (2 ^ i)) % 2 = 1

\* (~n) & (1 << i) is not zero, for n >= 0.
BitSetOfNot(n, i) == ~BitSet(n, i)

\* this.vlin(x, y1, y2)
vlin(x, y1, y2) == <<x, y1, y2>>

\* #drawDigitChar that draws the character four rows higher.
drawDigitChar_fourRowsUp(x, y, c) ==
    [x |-> x, y |-> y - 4, c |-> IF c >= CHAR0 /\ c <= CHAR0 + 9 THEN c ELSE CHAR0]

\* BarcodeBitmap.#drawDigitChar: the call this.drawChar5x8(x, y, clamped).
drawDigitChar(x, y, c) ==
    [x |-> x, y |-> y, c |-> IF c >= CHAR0 /\ c <= CHAR0 + 9 THEN c ELSE CHAR0]

\* BarcodeBitmap.#drawUpcEanDigit: the call, and the table entry it reads.
drawUpcEanDigit(x, y1, y2, n, barSet) ==
    [x |-> x, y1 |-> y1, y2 |-> y2, n |-> n, barSet |-> barSet,
     bits |-> CASE barSet = "leftA" -> At(upcLeftA, charToDigit(n))
                [] barSet = "leftB" -> At(upcLeftB, charToDigit(n))
                [] barSet = "right" -> At(upcRight, charToDigit(n))]

\* The vlin calls of the loop of #drawUpcEanDigit (i from 6 down to 0).
digitVlins(bar) ==
    {vlin(bar.x + (6 - i), bar.y1, bar.y2) :
        i \in {j \in 0..6 : BitSet(bar.bits, j)}}

\* What one of the #draw...Bars methods draws.
Bars(vlins, bars) == [vlins |-> vlins, bars |-> bars]

\* #drawUpcABars whose trailer is two columns to the left (x + 90, x + 92).
drawUpcABars_trailerTwoLeft(digits, x, y1, barY2, guardY2) ==
    Bars({vlin(x, y1, guardY2), vlin(x + 2, y1, guardY2),
          vlin(x + 46, y1, guardY2), vlin(x + 48, y1, guardY2),
          vlin(x + 90, y1, guardY2), vlin(x + 92, y1, guardY2)},
         {drawUpcEanDigit(x + 3 + i * 7, y1,
                          IF i = 0 THEN guardY2 ELSE barY2,
                          At(digits, i), "leftA") : i \in 0..5}
         \cup {drawUpcEanDigit(x + 50 + i * 7, y1,
                               IF i = 5 THEN guardY2 ELSE barY2,
                               At(digits, i + 6), "right") : i \in 0..5})

\* BarcodeBitmap.#drawUpcABars
drawUpcABars(digits, x, y1, barY2, guardY2) ==
    Bars({vlin(x, y1, guardY2), vlin(x + 2, y1, guardY2),
          vlin(x + 46, y1, guardY2), vlin(x + 48, y1, guardY2),
          vlin(x + 92, y1, guardY2), vlin(x + 94, y1, guardY2)},
         {drawUpcEanDigit(x + 3 + i * 7, y1,
                          IF i = 0 THEN guardY2 ELSE barY2,
                          At(digits, i), "leftA") : i \in 0..5}
         \cup {drawUpcEanDigit(x + 50 + i * 7, y1,
                               IF i = 5 THEN guardY2 ELSE barY2,
                               At(digits, i + 6), "right") : i \in 0..5})

\* #drawUpcEBars that never complements the pattern.
drawUpcEBars_neverComplements(digits, x, y1, barY2, guardY2) ==
    LET parityRaw == At(upcELastDigit, charToDigit(At(digits, 7)))
        lset(i) == IF BitSet(parityRaw, 5 - i) THEN "leftB" ELSE "leftA"
    IN  Bars({vlin(x, y1, guardY2), vlin(x + 2, y1, guardY2),
              vlin(x + 46, y1, guardY2), vlin(x + 48, y1, guardY2),
              vlin(x + 50, y1, guardY2)},
             {drawUpcEanDigit(x + 3 + i * 7, y1, barY2, At(digits, i + 1),
                              lset(i)) : i \in 0..5})

\* BarcodeBitmap.#drawUpcEBars
drawUpcEBars(digits, x, y1, barY2, guardY2) ==
    LET parityRaw == At(upcELastDigit, charToDigit(At(digits, 7)))
        lset(i) ==
            IF (IF At(digits, 0) = CHAR0
                THEN BitSet(parityRaw, 5 - i)
                ELSE BitSetOfNot(parityRaw, 5 - i))
            THEN "leftB" ELSE "leftA"
    IN  Bars({vlin(x, y1, guardY2), vlin(x + 2, y1, guardY2),
              vlin(x + 46, y1, guardY2), vlin(x + 48, y1, guardY2),
              vlin(x + 50, y1, guardY2)},
             {drawUpcEanDigit(x + 3 + i * 7, y1, barY2, At(digits, i + 1),
                              lset(i)) : i \in 0..5})

\* BarcodeBitmap.#drawEan13Bars
drawEan13Bars(digits, x, y1, barY2, guardY2) ==
    LET leftPattern == At(ean13FirstDigit, charToDigit(At(digits, 0)))
        lset(i) == IF BitSet(leftPattern, 5 - i) THEN "leftB" ELSE "leftA"
    IN  Bars({vlin(x, y1, guardY2), vlin(x + 2, y1, guardY2),
              vlin(x + 46, y1, guardY2), vlin(x + 48, y1, guardY2),
              vlin(x + 92, y1, guardY2), vlin(x + 94, y1, guardY2)},
             {drawUpcEanDigit(x + 3 + i * 7, y1, barY2, At(digits, i + 1),
                              lset(i)) : i \in 0..5}
             \cup {drawUpcEanDigit(x + 50 + i * 7, y1, barY2,
                                   At(digits, i + 7), "right") : i \in 0..5})

\* BarcodeBitmap.#drawEan8Bars
drawEan8Bars(digits, x, y1, barY2, guardY2) ==
    Bars({vlin(x, y1, guardY2), vlin(x + 2, y1, guardY2),
          vlin(x + 32, y1, guardY2), vlin(x + 34, y1, guardY2),
          vlin(x + 64, y1, guardY2), vlin(x + 66, y1, guardY2)},
         {drawUpcEanDigit(x + 3 + i * 7, y1, barY2, At(digits, i), "leftA") :
              i \in 0..3}
         \cup {drawUpcEanDigit(x + 36 + i * 7, y1, barY2,
                               At(digits, i + 4), "right") : i \in 0..3})

\* bc after the bars and the digit characters are drawn into it.
Drawn(bc, drawn, chars) ==
    [bc EXCEPT !.vlins = drawn.vlins, !.bars = drawn.bars, !.chars = chars]

makeUpcAFull(digits, y, extraWidth) ==
    LET baseWidth == 107
        baseHeight == 60
        height == baseHeight + y
    IN  Drawn(BarcodeBitmap("upcAFull", digits,
                  baseWidth + (IF extraWidth <= 6 THEN 0 ELSE extraWidth - 6),
                  height),
              drawUpcABars(digits, 6, y, height - 10, height - 4),
              {drawDigitChar(0, height - 14, At(digits, 0)),
               drawDigitChar(103, height - 14, At(digits, 11))}
              \cup {drawDigitChar(18 + i * 7, height - 7, At(digits, i + 1)) :
                       i \in 0..4}
              \cup {drawDigitChar(57 + i * 7, height - 7, At(digits, i + 6)) :
                       i \in 0..4})

makeUpcAShort(digits, y, extraWidth) ==
    LET baseWidth == 95
        baseHeight == 40
        height == baseHeight + y
    IN  Drawn(BarcodeBitmap("upcAShort", digits, baseWidth + extraWidth, height),
              drawUpcABars(digits, 0, y, height - 9, height - 9),
              {drawDigitChar(13 + i * 6, height - 7, At(digits, i)) :
                  i \in 0..11})

makeUpcEFull(digits, y, extraWidth) ==
    LET baseWidth == 63
        baseHeight == 60
        height == baseHeight + y
    IN  Drawn(BarcodeBitmap("upcEFull", digits,
                  baseWidth + (IF extraWidth <= 6 THEN 0 ELSE extraWidth - 6),
                  height),
              drawUpcEBars(digits, 6, y, height - 10, height - 4),
              {drawDigitChar(0, height - 14, At(digits, 0)),
               drawDigitChar(59, height - 14, At(digits, 7))}
              \cup {drawDigitChar(11 + i * 7, height - 7, At(digits, i + 1)) :
                       i \in 0..5})

makeUpcEShort(digits, y, extraWidth) ==
    LET baseWidth == 51
        baseHeight == 40
        height == baseHeight + y
    IN  Drawn(BarcodeBitmap("upcEShort", digits, baseWidth + extraWidth, height),
              drawUpcEBars(digits, 0, y, height - 9, height - 9),
              {drawDigitChar(2 + i * 6, height - 7, At(digits, i)) :
                  i \in 0..7})

makeEan13Full(digits, y, extraWidth) ==
    LET baseWidth == 101
        baseHeight == 60
        height == baseHeight + y
    IN  Drawn(BarcodeBitmap("ean13Full", digits, baseWidth + extraWidth, height),
              drawEan13Bars(digits, 6, y, height - 10, height - 4),
              {drawDigitChar(0, height - 7, At(digits, 0))}
              \cup {drawDigitChar(11 + i * 7, height - 7, At(digits, i + 1)) :
                       i \in 0..5}
              \cup {drawDigitChar(57 + i * 7, height - 7, At(digits, i + 7)) :
                       i \in 0..5})

makeEan13Short(digits, y, extraWidth) ==
    LET baseWidth == 95
        baseHeight == 40
        height == baseHeight + y
    IN  Drawn(BarcodeBitmap("ean13Short", digits, baseWidth + extraWidth, height),
              drawEan13Bars(digits, 0, y, height - 9, height - 9),
              {drawDigitChar(9 + i * 6, height - 7, At(digits, i)) :
                  i \in 0..12})

makeEan8Full(digits, y, extraWidth) ==
    LET baseWidth == 67
        baseHeight == 60
        height == baseHeight + y
    IN  Drawn(BarcodeBitmap("ean8Full", digits, baseWidth + extraWidth, height),
              drawEan8Bars(digits, 0, y, height - 10, height - 4),
              {drawDigitChar(5 + i * 7, height - 7, At(digits, i)) :
                  i \in 0..3}
              \cup {drawDigitChar(37 + i * 7, height - 7, At(digits, i + 4)) :
                       i \in 0..3})

makeEan8Short(digits, y, extraWidth) ==
    LET baseWidth == 67
        baseHeight == 40
        height == baseHeight + y
    IN  Drawn(BarcodeBitmap("ean8Short", digits, baseWidth + extraWidth, height),
              drawEan8Bars(digits, 0, y, height - 9, height - 9),
              {drawDigitChar(10 + i * 6, height - 7, At(digits, i)) :
                  i \in 0..7})

----------------------------------------------------------------------------
(* BarcodeBitmap: UPC-E compression and expansion *)

\* #compressToUpcEDigits whose third branch does not look at expanded[8].
compressToUpcEDigits_skipsAZero(expanded) ==
    LET e(i) == At(expanded, i)
        zero == CHAR0
        c7 == e(11)
    IN  IF (e(0) # zero) /\ (e(0) # CHAR0 + 1)
        THEN Throw("UPC-E expanded form must start with \"0\" or \"1\".")
        ELSE IF e(5) # zero
        THEN IF \/ e(6) # zero
                \/ e(7) # zero
                \/ e(8) # zero
                \/ e(9) # zero
                \/ e(10) < CHAR0 + 5
             THEN Throw("Invalid UPC-E expanded form.")
             ELSE Return(<<e(0), e(1), e(2), e(3), e(4), e(5), e(10), c7>>)
        ELSE IF e(4) # zero
        THEN IF \/ e(6) # zero
                \/ e(7) # zero
                \/ e(8) # zero
                \/ e(9) # zero
             THEN Throw("Invalid UPC-E expanded form.")
             ELSE Return(<<e(0), e(1), e(2), e(3), e(4), e(10), CHAR0 + 4, c7>>)
        ELSE IF (e(3) # zero) /\ (e(3) # CHAR0 + 1) /\ (e(3) # CHAR0 + 2)
        THEN IF \/ e(6) # zero
                \/ e(7) # zero
             THEN Throw("Invalid UPC-E expanded form.")
             ELSE Return(<<e(0), e(1), e(2), e(3), e(9), e(10), CHAR0 + 3, c7>>)
        ELSE IF (e(6) # zero) \/ (e(7) # zero)
        THEN Throw("Invalid UPC-E expanded form.")
        ELSE Return(<<e(0), e(1), e(2), e(8), e(9), e(10), e(3), c7>>)

\* #compressToUpcEDigits whose branch for '4' writes '3' as the last
\* explicit digit.
compressToUpcEDigits_fourAsThree(expanded) ==
    LET e(i) == At(expanded, i)
        zero == CHAR0
        c7 == e(11)
    IN  IF (e(0) # zero) /\ (e(0) # CHAR0 + 1)
        THEN Throw("UPC-E expanded form must start with \"0\" or \"1\".")
        ELSE IF e(5) # zero
        THEN IF \/ e(6) # zero
                \/ e(7) # zero
                \/ e(8) # zero
                \/ e(9) # zero
                \/ e(10) < CHAR0 + 5
             THEN Throw("Invalid UPC-E expanded form.")
             ELSE Return(<<e(0), e(1), e(2), e(3), e(4), e(5), e(10), c7>>)
        ELSE IF e(4) # zero
        THEN IF \/ e(6) # zero
                \/ e(7) # zero
                \/ e(8) # zero
                \/ e(9) # zero
             THEN Throw("Invalid UPC-E expanded form.")
             ELSE Return(<<e(0), e(1), e(2), e(3), e(4), e(10), CHAR0 + 3, c7>>)
        ELSE IF (e(3) # zero) /\ (e(3) # CHAR0 + 1) /\ (e(3) # CHAR0 + 2)
        THEN IF \/ e(6) # zero
                \/ e(7) # zero
                \/ e(8) # zero
             THEN Throw("Invalid UPC-E expanded form.")
             ELSE Return(<<e(0), e(1), e(2), e(3), e(9), e(10), CHAR0 + 3, c7>>)
        ELSE IF (e(6) # zero) \/ (e(7) # zero)
        THEN Throw("Invalid UPC-E expanded form.")
        ELSE Return(<<e(0), e(1), e(2), e(8), e(9), e(10), e(3), c7>>)

\* BarcodeBitmap.#compressToUpcEDigits.  The 8 characters are c0..c6 and
\* compressed[7] = expanded[11].
compressToUpcEDigits(expanded) ==
    LET e(i) == At(expanded, i)
        zero == CHAR0
        c7 == e(11)
    IN  IF (e(0) # zero) /\ (e(0) # CHAR0 + 1)
        THEN Throw("UPC-E expanded form must start with \"0\" or \"1\".")
        ELSE IF e(5) # zero
        THEN IF \/ e(6) # zero
                \/ e(7) # zero
                \/ e(8) # zero
                \/ e(9) # zero
                \/ e(10) < CHAR0 + 5
             THEN Throw("Invalid UPC-E expanded form.")
             ELSE Return(<<e(0), e(1), e(2), e(3), e(4), e(5), e(10), c7>>)
        ELSE IF e(4) # zero
        THEN IF \/ e(6) # zero
                \/ e(7) # zero
                \/ e(8) # zero
                \/ e(9) # zero
             THEN Throw("Invalid UPC-E expanded form.")
             ELSE Return(<<e(0), e(1), e(2), e(3), e(4), e(10), CHAR0 + 4, c7>>)
        ELSE IF (e(3) # zero) /\ (e(3) # CHAR0 + 1) /\ (e(3) # CHAR0 + 2)
        THEN IF \/ e(6) # zero
                \/ e(7) # zero
                \/ e(8) # zero
             THEN Throw("Invalid UPC-E expanded form.")
             ELSE Return(<<e(0), e(1), e(2), e(3), e(9), e(10), CHAR0 + 3, c7>>)
        ELSE IF (e(6) # zero) \/ (e(7) # zero)
        THEN Throw("Invalid UPC-E expanded form.")
        ELSE Return(<<e(0), e(1), e(2), e(8), e(9), e(10), e(3), c7>>)

\* #expandToUpcADigits that sums the 7 digits of the compressed form
\* instead of the 11 of the expanded one.
expandToUpcADigits_sumsCompressed(compressed) ==
    LET c(i) == At(compressed, i)
        zero == CHAR0
        body ==
            CASE c(6) \in {CHAR0, CHAR0 + 1, CHAR0 + 2} ->
                   <<c(0), c(1), c(2), c(6), zero, zero, zero, zero,
                     c(3), c(4), c(5), c(7)>>
              [] c(6) = CHAR0 + 3 ->
                   <<c(0), c(1), c(2), c(3), zero, zero, zero, zero,
                     zero, c(4), c(5), c(7)>>
              [] c(6) = CHAR0 + 4 ->
                   <<c(0), c(1), c(2), c(3), c(4), zero, zero, zero,
                     zero, zero, c(5), c(7)>>
              [] OTHER ->
                   <<c(0), c(1), c(2), c(3), c(4), c(5), zero, zero,
                     zero, zero, c(6), c(7)>>
    IN  IF (c(0) # zero) /\ (c(0) # CHAR0 + 1)
        THEN Throw("UPC-E must start with an explicit or implied \"0\" or \"1\".")
        ELSE IF At(body, 11) = QMARK
        THEN Return(SubSeq(body, 1, 11)
                    \o checksumString(checksumLoop(compressed, 7, 0, 3, 0)))
        ELSE Return(body)

\* #expandToUpcADigits whose case '3' is handled as the cases '0', '1' and
\* '2' are.
expandToUpcADigits_threeAsTwo(compressed) ==
    LET c(i) == At(compressed, i)
        zero == CHAR0
        body ==
            CASE c(6) \in {CHAR0, CHAR0 + 1, CHAR0 + 2, CHAR0 + 3} ->
                   <<c(0), c(1), c(2), c(6), zero, zero, zero, zero,
                     c(3), c(4), c(5), c(7)>>
              [] c(6) = CHAR0 + 3 ->
                   <<c(0), c(1), c(2), c(3), zero, zero, zero, zero,
                     zero, c(4), c(5), c(7)>>
              [] c(6) = CHAR0 + 4 ->
                   <<c(0), c(1), c(2), c(3), c(4), zero, zero, zero,
                     zero, zero, c(5), c(7)>>
              [] OTHER ->
                   <<c(0), c(1), c(2), c(3), c(4), c(5), zero, zero,
                     zero, zero, c(6), c(7)>>
    IN  IF (c(0) # zero) /\ (c(0) # CHAR0 + 1)
        THEN Throw("UPC-E must start with an explicit or implied \"0\" or \"1\".")
        ELSE IF At(body, 11) = QMARK
        THEN Return(SubSeq(body, 1, 11)
                    \o checksumString(checksumLoop(body, 11, 0, 3, 0)))
        ELSE Return(body)

\* BarcodeBitmap.#expandToUpcADigits
expandToUpcADigits(compressed) ==
    LET c(i) == At(compressed, i)
        zero == CHAR0
        body ==
            CASE c(6) \in {CHAR0, CHAR0 + 1, CHAR0 + 2} ->
                   <<c(0), c(1), c(2), c(6), zero, zero, zero, zero,
                     c(3), c(4), c(5), c(7)>>
              [] c(6) = CHAR0 + 3 ->
                   <<c(0), c(1), c(2), c(3), zero, zero, zero, zero,
                     zero, c(4), c(5), c(7)>>
              [] c(6) = CHAR0 + 4 ->
                   <<c(0), c(1), c(2), c(3), c(4), zero, zero, zero,
                     zero, zero, c(5), c(7)>>
              [] OTHER ->
                   <<c(0), c(1), c(2), c(3), c(4), c(5), zero, zero,
                     zero, zero, c(6), c(7)>>
    IN  IF (c(0) # zero) /\ (c(0) # CHAR0 + 1)
        THEN Throw("UPC-E must start with an explicit or implied \"0\" or \"1\".")
        ELSE IF At(body, 11) = QMARK
        THEN Return(SubSeq(body, 1, 11)
                    \o checksumString(checksumLoop(body, 11, 0, 3, 0)))
        ELSE Return(body)

----------------------------------------------------------------------------
(* BarcodeBitmap: the public makers *)

\* /^[0-9]{11}[?0-9]$/
matchUpcA(digits) ==
    Len(digits) = 12 /\ AllDigits(digits, 0, 10) /\ IsDigitOrQ(At(digits, 11))

\* /^[0-9]{12}[?0-9]$/
matchEan13(digits) ==
    Len(digits) = 13 /\ AllDigits(digits, 0, 11) /\ IsDigitOrQ(At(digits, 12))

\* /^[0-9]{7}[?0-9]$/
matchEan8(digits) ==
    Len(digits) = 8 /\ AllDigits(digits, 0, 6) /\ IsDigitOrQ(At(digits, 7))

\* /^([01]?[0-9]{6}|[01](?=.*0000)[0-9]{10})[?0-9]$/
matchUpcE(digits) ==
    LET zeroOrOne(c) == c = CHAR0 \/ c = CHAR0 + 1
        \* (?=.*0000) looked for from index 1
        has0000 == \E j \in 1..(Len(digits) - 4) :
                       \A k \in j..(j + 3) : At(digits, k) = CHAR0
    IN  \/ /\ Len(digits) = 7
           /\ AllDigits(digits, 0, 5)
           /\ IsDigitOrQ(At(digits, 6))
        \/ /\ Len(digits) = 8
           /\ zeroOrOne(At(digits, 0))
           /\ AllDigits(digits, 1, 6)
           /\ IsDigitOrQ(At(digits, 7))
        \/ /\ Len(digits) = 12
           /\ zeroOrOne(At(digits, 0))
           /\ has0000
           /\ AllDigits(digits, 1, 10)
           /\ IsDigitOrQ(At(digits, 11))

\* /^([0-9]{2}|[0-9]{4}[?0-9])$/ : a placeholder allowed, as in main codes.
matchSupplement_placeholder(digits) ==
    /\ Len(digits) \in {2, 5}
    /\ AllDigits(digits, 0, Len(digits) - 2)
    /\ IsDigitOrQ(At(digits, Len(digits) - 1))

\* /^([0-9]{2}|[0-9]{5})$/
matchSupplement(digits) ==
    Len(digits) \in {2, 5} /\ AllDigits(digits, 0, Len(digits) - 1)

\* makeUpcA with the two weights exchanged (mul starts at 1).
makeUpcA_weightsExchanged(digits, shortHeight, y, extraWidth) ==
    IF ~matchUpcA(digits)
    THEN Throw("UPC-A must have 12 digits.")
    ELSE LET final ==
                 IF At(digits, 11) = QMARK
                 THEN ReplaceQ(digits,
                          checksumString(checksumLoop(digits, 11, 0, 1, 0)))
                 ELSE digits
         IN  Return(IF shortHeight
                    THEN makeUpcAShort(final, y, extraWidth)
                    ELSE makeUpcAFull(final, y, extraWidth))

\* makeUpcA that rejects a supplied final digit other than the computed
\* check digit.
makeUpcA_verifies(digits, shortHeight, y, extraWidth) ==
    IF ~matchUpcA(digits)
    THEN Throw("UPC-A must have 12 digits.")
    ELSE LET computed ==
                 ReplaceQ(SubSeq(digits, 1, 11) \o <<QMARK>>,
                          checksumString(checksumLoop(digits, 11, 0, 3, 0)))
         IN  IF At(digits, 11) # QMARK /\ digits # computed
             THEN Throw("UPC-A check digit is wrong.")
             ELSE Return(IF shortHeight
                         THEN makeUpcAShort(computed, y, extraWidth)
                         ELSE makeUpcAFull(computed, y, extraWidth))

\* makeUpcA whose checksum loop stops one digit early (i < 10).
makeUpcA_stopsEarly(digits, shortHeight, y, extraWidth) ==
    IF ~matchUpcA(digits)
    THEN Throw("UPC-A must have 12 digits.")
    ELSE LET final ==
                 IF At(digits, 11) = QMARK
                 THEN ReplaceQ(digits,
                          checksumString(checksumLoop(digits, 10, 0, 3, 0)))
                 ELSE digits
         IN  Return(IF shortHeight
                    THEN makeUpcAShort(final, y, extraWidth)
                    ELSE makeUpcAFull(final, y, extraWidth))

\* BarcodeBitmap.makeUpcA
makeUpcA(digits, shortHeight, y, extraWidth) ==
    IF ~matchUpcA(digits)
    THEN Throw("UPC-A must have 12 digits.")
    ELSE LET final ==
                 IF At(digits, 11) = QMARK
                 THEN ReplaceQ(digits,
                          checksumString(checksumLoop(digits, 11, 0, 3, 0)))
                 ELSE digits
         IN  Return(IF shortHeight
                    THEN makeUpcAShort(final, y, extraWidth)
                    ELSE makeUpcAFull(final, y, extraWidth))

\* The end of makeUpcE: the private maker for the height.
makeUpcEDraw(compressed, shortHeight, y, extraWidth) ==
    Return(IF shortHeight
           THEN makeUpcEShort(compressed, y, extraWidth)
           ELSE makeUpcEFull(compressed, y, extraWidth))

\* makeUpcE, "Expand, and copy the checksum", given what
\* #expandToUpcADigits(compressed) gave.
makeUpcEChecksum(compressed, expanded, shortHeight, y, extraWidth) ==
    IF ~expanded.ok THEN expanded
    ELSE makeUpcEDraw(ReplaceQ(compressed, <<At(expanded.val, 11)>>),
                      shortHeight, y, extraWidth)

\* makeUpcE from the switch on: step is the compressed form, or the error
\* #compressToUpcEDigits threw.
makeUpcEFrom(step, shortHeight, y, extraWidth) ==
    IF ~step.ok THEN step
    ELSE IF At(step.val, 7) = QMARK
    THEN makeUpcEChecksum(step.val, expandToUpcADigits(step.val),
                          shortHeight, y, extraWidth)
    ELSE makeUpcEDraw(step.val, shortHeight, y, extraWidth)

\* BarcodeBitmap.makeUpcE
makeUpcE(digits, shortHeight, y, extraWidth) ==
    IF ~matchUpcE(digits)
    THEN Throw("UPC-E must be one of: 7 digits; 8 digits starting with either \"0\" or \"1\"; 12 digits ...")
    ELSE makeUpcEFrom(
             CASE Len(digits) = 7 -> Return(<<CHAR0>> \o digits)
               [] Len(digits) = 8 -> Return(digits)
               [] Len(digits) = 12 -> compressToUpcEDigits(digits),
             shortHeight, y, extraWidth)

\* makeEan13 with the weights of UPC-A (mul starts at 3).
makeEan13_upcAWeights(digits, shortHeight, y, extraWidth) ==
    IF ~matchEan13(digits)
    THEN Return(Null)
    ELSE LET final ==
                 IF At(digits, 12) = QMARK
                 THEN ReplaceQ(digits,
                          checksumString(checksumLoop(digits, 12, 0, 3, 0)))
                 ELSE digits
         IN  Return(IF shortHeight
                    THEN makeEan13Short(final, y, extraWidth)
                    ELSE makeEan13Full(final, y, extraWidth))

\* BarcodeBitmap.makeEan13
makeEan13(digits, shortHeight, y, extraWidth) ==
    IF ~matchEan13(digits)
    THEN Return(Null)
    ELSE LET final ==
                 IF At(digits, 12) = QMARK
                 THEN ReplaceQ(digits,
                          checksumString(checksumLoop(digits, 12, 0, 1, 0)))
                 ELSE digits
         IN  Return(IF shortHeight
                    THEN makeEan13Short(final, y, extraWidth)
                    ELSE makeEan13Full(final, y, extraWidth))

\* BarcodeBitmap.makeEan8
makeEan8(digits, shortHeight, y, extraWidth) ==
    IF ~matchEan8(digits)
    THEN Return(Null)
    ELSE LET final ==
                 IF At(digits, 7) = QMARK
                 THEN ReplaceQ(digits,
                          checksumString(checksumLoop(digits, 7, 0, 3, 0)))
                 ELSE digits
         IN  Return(IF shortHeight
                    THEN makeEan8Short(final, y, extraWidth)
                    ELSE makeEan8Full(final, y, extraWidth))

\* The parity with the second and fourth digits weighted by 1 instead
\* of 9.
supplementParity_weightsThreeOne(digits) ==
    LET c2d(n) == charToDigit(At(digits, n))
    IN  CASE Len(digits) = 2 -> (c2d(0) * 10 + c2d(1)) % 4
          [] Len(digits) = 5 ->
                At(upcELastDigit,
                   ((c2d(0) + c2d(2) + c2d(4)) * 3 + (c2d(1) + c2d(3)) * 1) % 10)
          [] OTHER -> 0

\* The parity of BarcodeBitmap.#drawSupplement: switch (len).
supplementParity(digits) ==
    LET c2d(n) == charToDigit(At(digits, n))
    IN  CASE Len(digits) = 2 -> (c2d(0) * 10 + c2d(1)) % 4
          [] Len(digits) = 5 ->
                At(upcELastDigit,
                   ((c2d(0) + c2d(2) + c2d(4)) * 3 + (c2d(1) + c2d(3)) * 9) % 10)
          [] OTHER -> 0

\* #drawSupplement that reads the parity bits from the low end (1 << i).
drawSupplementWith_bitsReversed(parity, digits, x, y1In, y2In, textAbove) ==
    LET len == Len(digits)
        textY == IF textAbove THEN y1In ELSE y2In - 8 + 2
        y1 == IF textAbove THEN y1In + 8 ELSE y1In
        y2 == IF textAbove THEN y2In ELSE y2In - 8
        textX == CASE len = 2 -> x + 5 [] len = 5 -> x + 10 [] OTHER -> 0
        lset(i) == IF BitSet(parity, i) THEN "leftB" ELSE "leftA"
        baseX(i) == x + 2 + i * 9
    IN  [vlins |-> {vlin(x, y1, y2), vlin(x + 2, y1, y2), vlin(x + 3, y1, y2)}
                   \cup {vlin(baseX(i), y1, y2) : i \in {0} \cap (0..(len - 1))}
                   \cup {vlin(baseX(i) + 1, y1, y2) : i \in 0..(len - 1)},
         bars |-> {drawUpcEanDigit(baseX(i) + 2, y1, y2, At(digits, i),
                                   lset(i)) : i \in 0..(len - 1)},
         chars |-> {drawDigitChar(textX + i * 6, textY, At(digits, i)) :
                       i \in 0..(len - 1)}]

\* BarcodeBitmap.#drawSupplement, given the parity: the bars and the
\* characters it draws.
drawSupplementWith(parity, digits, x, y1In, y2In, textAbove) ==
    LET len == Len(digits)
        textY == IF textAbove THEN y1In ELSE y2In - 8 + 2
        y1 == IF textAbove THEN y1In + 8 ELSE y1In
        y2 == IF textAbove THEN y2In ELSE y2In - 8
        textX == CASE len = 2 -> x + 5 [] len = 5 -> x + 10 [] OTHER -> 0
        lset(i) == IF BitSet(parity, len - 1 - i) THEN "leftB" ELSE "leftA"
        baseX(i) == x + 2 + i * 9
    IN  [vlins |-> {vlin(x, y1, y2), vlin(x + 2, y1, y2), vlin(x + 3, y1, y2)}
                   \cup {vlin(baseX(i), y1, y2) : i \in {0} \cap (0..(len - 1))}
                   \cup {vlin(baseX(i) + 1, y1, y2) : i \in 0..(len - 1)},
         bars |-> {drawUpcEanDigit(baseX(i) + 2, y1, y2, At(digits, i),
                                   lset(i)) : i \in 0..(len - 1)},
         chars |-> {drawDigitChar(textX + i * 6, textY, At(digits, i)) :
                       i \in 0..(len - 1)}]

\* BarcodeBitmap.#drawSupplement
drawSupplement(digits, x, y1, y2, textAbove) ==
    drawSupplementWith(supplementParity(digits), digits, x, y1, y2, textAbove)

\* result.#drawSupplement(...): result after the call.
DrawnSupplement(bc, drawn) == Drawn(bc, drawn, drawn.chars)

\* BarcodeBitmap.makeSupplement
makeSupplement(digits, shortHeight) ==
    IF ~matchSupplement(digits)
    THEN Throw("Supplement must be either 2 or 5 digits.")
    ELSE LET width == upcEanSupplementWidth(digits)
             height == IF shortHeight THEN 40 ELSE 60
             y2 == IF shortHeight THEN height - 1 ELSE height - 4
         IN  Return(DrawnSupplement(
                        BarcodeBitmap(
                            IF shortHeight THEN "supplementBelow"
                                           ELSE "supplementAbove",
                            digits, width, height),
                        drawSupplement(digits, 0, 0, y2, ~shortHeight)))

\* The default case of makeBarcode: the message template names `form`,
\* which no scope declares, so evaluating it throws a ReferenceError
\* before any Error is constructed.
unknownFormat(format) ==
    ThrowWith("ReferenceError", "form is not defined", "", <<>>)

\* a ?? makeEan8(digits, shortHeight, 0, 0), given what a evaluated to.
orMakeEan8(first, digits, shortHeight) ==
    IF first.ok /\ first.val = Null
    THEN makeEan8(digits, shortHeight, 0, 0)
    ELSE first

\* The dwim switch of a variant that tries UPC-E before UPC-A at 12.
makeBarcodeDwim_upcEFirst(digits, shortHeight) ==
    CASE Len(digits) = 7 -> makeUpcE(digits, shortHeight, 0, 0)
      [] Len(digits) = 8 ->
            orMakeEan8(makeUpcE(digits, shortHeight, 0, 0), digits, shortHeight)
      [] Len(digits) = 12 ->
            IF matchUpcE(digits) /\ compressToUpcEDigits(digits).ok
            THEN makeUpcE(digits, shortHeight, 0, 0)
            ELSE makeUpcA(digits, shortHeight, 0, 0)
      [] Len(digits) = 13 -> makeEan13(digits, shortHeight, 0, 0)
      [] OTHER -> Return(Null)

\* The dwim case of makeBarcode: switch (digits.length).
makeBarcodeDwim(digits, shortHeight) ==
    CASE Len(digits) = 7 -> makeUpcE(digits, shortHeight, 0, 0)
      [] Len(digits) = 8 ->
            orMakeEan8(makeUpcE(digits, shortHeight, 0, 0), digits, shortHeight)
      [] Len(digits) = 12 -> makeUpcA(digits, shortHeight, 0, 0)
      [] Len(digits) = 13 -> makeEan13(digits, shortHeight, 0, 0)
      [] OTHER -> Return(Null)

\* The end of makeBarcode without the null check.
makeBarcodeResult_noNullCheck(result, format, digits) == result

\* The end of makeBarcode: if (result === null) throw ...; return result.
makeBarcodeResult(result, format, digits) ==
    IF ~result.ok THEN result
    ELSE IF result.val = Null
    THEN ThrowWith("Error", "Invalid format / digits: ${format}, ${digits}",
                   format, digits)
    ELSE result

\* BarcodeBitmap.makeBarcode
makeBarcode(format, digits, shortHeight) ==
    makeBarcodeResult(
        CASE format = "upcA" -> makeUpcA(digits, shortHeight, 0, 0)
          [] format = "upcE" -> makeUpcE(digits, shortHeight, 0, 0)
          [] format = "ean13" -> makeEan13(digits, shortHeight, 0, 0)
          [] format = "ean8" -> makeEan8(digits, shortHeight, 0, 0)
          [] format = "dwim" -> makeBarcodeDwim(digits, shortHeight)
          [] OTHER -> unknownFormat(format),
        format, digits)

----------------------------------------------------------------------------
(* Text *)

\* The loop of Text.measureText over the characters from index i on.
RECURSIVE measureLoop(_, _, _, _, _)
measureLoop(str, i, width, oneWidth, lineCount) ==
    IF i >= Len(str)
    THEN [width |-> width, oneWidth |-> oneWidth, lineCount |-> lineCount]
    ELSE IF At(str, i) = NEWLINE
    THEN measureLoop(str, i + 1,
                     IF width >= oneWidth THEN width ELSE oneWidth,
                     0, lineCount + 1)
    ELSE measureLoop(str, i + 1, width, oneWidth + 1, lineCount)

\* Text.measureText
measureText(str) ==
    LET end == measureLoop(str, 0, 0, 0, 1)
        width == IF end.width >= end.oneWidth THEN end.width ELSE end.oneWidth
    IN  [width |-> width * 5 - 1, height |-> end.lineCount * 8]

\* str.split('\n'): the lines of str, given the lines before index i and
\* the line being read.
RECURSIVE splitLines(_, _, _, _)
splitLines(str, i, lines, cur) ==
    IF i >= Len(str) THEN Append(lines, cur)
    ELSE IF At(str, i) = NEWLINE
    THEN splitLines(str, i + 1, Append(lines, cur), <<>>)
    ELSE splitLines(str, i + 1, lines, Append(cur, At(str, i)))

\* lines.join('\n')
RECURSIVE joinLines(_)
joinLines(lines) ==
    IF lines = <<>> THEN <<>>
    ELSE IF Len(lines) = 1 THEN lines[1]
    ELSE lines[1] \o <<NEWLINE>> \o joinLines(Tail(lines))

\* s.replace(/ [^ ]*$/, ''): s without its last space and what follows it.
dropLastWord(s) ==
    LET spaces == {i \in 1..Len(s) : s[i] = SPACE}
    IN  IF spaces = {} THEN s
        ELSE LET k == CHOOSE i \in spaces : \A j \in spaces : j <= i
             IN  SubSeq(s, 1, k - 1)

\* s.replace(/^ +/, '')
RECURSIVE dropLeadingSpaces(_)
dropLeadingSpaces(s) ==
    IF s # <<>> /\ Head(s) = SPACE THEN dropLeadingSpaces(Tail(s)) ELSE s

\* The fragment cut from one character more: line.slice(0, max + 1).
wrapFragment_cutsOneLate(line, max) == dropLastWord(Slice(line, 0, max + 1))

\* line.slice(0, max).replace(/ [^ ]*$/, ''): the fragment that one
\* iteration of the while loop pushes when the line is longer than max.
wrapFragment(line, max) == dropLastWord(Slice(line, 0, max))

\* line.slice(frag.length).replace(/^ +/, ''): what that iteration leaves.
wrapRest(line, frag) == dropLeadingSpaces(Slice(line, Len(frag), Len(line)))

\* The while loop of Text.#wrapText on one line: result with the line's
\* fragments pushed.
RECURSIVE wrapLine(_, _, _)
wrapLine(line, max, result) ==
    IF line = <<>> THEN result
    ELSE IF Len(line) <= max THEN Append(result, line)
    ELSE wrapLine(wrapRest(line, wrapFragment(line, max)), max,
                  Append(result, wrapFragment(line, max)))

\* The for loop of Text.#wrapText over the lines.
RECURSIVE wrapLines(_, _, _)
wrapLines(lines, max, result) ==
    IF lines = <<>> THEN result
    ELSE wrapLines(Tail(lines), max, wrapLine(Head(lines), max, result))

\* Text.#wrapText
wrapText(str, max) == joinLines(wrapLines(splitLines(str, 0, <<>>, <<>>), max, <<>>))

\* Math.trunc(a / b) for b > 0.
TruncDiv(a, b) == IF a >= 0 THEN a \div b ELSE -((-a) \div b)

\* The column budget Text.makeBitmap hands to #wrapText.
maxColumns(maxWidth) == TruncDiv(maxWidth[1], 5)

\* Text.makeBitmap from the measurement on: the bitmap asked for and the
\* string drawn in it.
newTextBitmap(str) ==
    Bitmap("text", str, measureText(str).width, measureText(str).height, <<>>)

\* Text.makeBitmap.  maxWidth is <<>> for null and <<n>> for the number n.
makeBitmap(str, maxWidth) ==
    newTextBitmap(IF maxWidth # <<>>
                  THEN wrapText(str, maxColumns(maxWidth))
                  ELSE str)

----------------------------------------------------------------------------
(* Barcode *)

MAIN_TO_SUPPLEMENT_SPACE == 8

\* The fields of a Barcode right after construction.
Constructed ==
    [short |-> FALSE, mainFormat |-> "dwim", mainDigits |-> <<>>,
     supplementDigits |-> <<>>, title |-> <<>>,
     mainBitmap |-> Null, supplementBitmap |-> Null, titleBitmap |-> Null]

\* A private method's completion: the instance as it leaves it, and the
\* error if it threw.
Done(this) == [ok |-> TRUE, this |-> this]
Raised(this, err) == [ok |-> FALSE, this |-> this, err |-> err]

\* result.copyRect(destX, destY, source, 0, 0, source.width, source.height)
copyRect(destX, destY, source) ==
    [destX |-> destX, destY |-> destY, source |-> source, srcX |-> 0,
     srcY |-> 0, width |-> source.width, height |-> source.height]

\* this.#<field> = <made>: the assignment happens unless the right-hand
\* side threw.
Assign(this, field, made) ==
    IF made.ok THEN Done([this EXCEPT ![field] = made.val])
    ELSE Raised(this, made.err)

\* Barcode.#renderMainBitmap
renderMainBitmap(this) ==
    Assign(this, "mainBitmap",
           makeBarcode(this.mainFormat, this.mainDigits, this.short))

\* #renderSupplementBitmap that returns early, leaving the field as it
\* is, when there is no supplement.
renderSupplementBitmap_keepsOld(this) ==
    IF this.supplementDigits = <<>>
    THEN Done(this)
    ELSE Assign(this, "supplementBitmap",
                makeSupplement(this.supplementDigits, this.short))

\* Barcode.#renderSupplementBitmap
renderSupplementBitmap(this) ==
    Assign(this, "supplementBitmap",
           IF this.supplementDigits = <<>>
           THEN Return(Null)
           ELSE makeSupplement(this.supplementDigits, this.short))

\* The width of the code in #renderTitleBitmap.
codeWidth(this) ==
    IF this.supplementBitmap # Null
    THEN this.mainBitmap.width + MAIN_TO_SUPPLEMENT_SPACE
         + this.supplementBitmap.width
    ELSE this.mainBitmap.width

\* finalWidth with the test the other way round: 133% for a title that
\* fits the code.
finalWidth_narrowerGetsMore(this) ==
    IF codeWidth(this) < measureText(this.title).width
    THEN codeWidth(this)
    ELSE TruncDiv(codeWidth(this) * 133, 100)

\* The finalWidth of #renderTitleBitmap; Math.trunc(codeWidth * 1.33) is
\* trunc(codeWidth * 133 / 100) for the widths a code has (no multiple of
\* 100 among them, so the rounding of 1.33 does not show).
finalWidth(this) ==
    IF codeWidth(this) >= measureText(this.title).width
    THEN codeWidth(this)
    ELSE TruncDiv(codeWidth(this) * 133, 100)

\* Barcode.#renderTitleBitmap
renderTitleBitmap(this) ==
    IF this.title = <<>>
    THEN Done([this EXCEPT !.titleBitmap = Null])
    ELSE Done([this EXCEPT
                  !.titleBitmap = makeBitmap(this.title, <<finalWidth(this)>>)])

\* The composition with the supplement copied right after the main code
\* (destX = main.width) instead of at the right edge.
compose_supplementAtMainEdge(main, sup, titleBm) ==
    LET withSup ==
            IF sup # Null
            THEN LET newWidth ==
                         main.width + MAIN_TO_SUPPLEMENT_SPACE + sup.width
                 IN  Bitmap("bitmap", <<>>, newWidth, main.height,
                            <<copyRect(0, 0, main),
                              copyRect(main.width, 0, sup)>>)
            ELSE main
    IN  IF titleBm # Null
        THEN LET newWidth == IF withSup.width >= titleBm.width
                             THEN withSup.width ELSE titleBm.width
                 newHeight == titleBm.height + 1 + withSup.height
             IN  Bitmap("bitmap", <<>>, newWidth, newHeight,
                        <<copyRect(TruncDiv(newWidth - titleBm.width, 2), 0,
                                   titleBm),
                          copyRect(TruncDiv(newWidth - withSup.width, 2),
                                   titleBm.height + 1, withSup)>>)
        ELSE withSup

\* The composition with the title and the code both copied at x = 0
\* instead of centred.
compose_leftAligned(main, sup, titleBm) ==
    LET withSup ==
            IF sup # Null
            THEN LET newWidth ==
                         main.width + MAIN_TO_SUPPLEMENT_SPACE + sup.width
                 IN  Bitmap("bitmap", <<>>, newWidth, main.height,
                            <<copyRect(0, 0, main),
                              copyRect(newWidth - sup.width, 0, sup)>>)
            ELSE main
    IN  IF titleBm # Null
        THEN LET newWidth == IF withSup.width >= titleBm.width
                             THEN withSup.width ELSE titleBm.width
                 newHeight == titleBm.height + 1 + withSup.height
             IN  Bitmap("bitmap", <<>>, newWidth, newHeight,
                        <<copyRect(0, 0, titleBm),
                          copyRect(0, titleBm.height + 1, withSup)>>)
        ELSE withSup

\* The composition at the end of Barcode.render, lines 55-83.
compose(main, sup, titleBm) ==
    LET withSup ==
            IF sup # Null
            THEN LET newWidth ==
                         main.width + MAIN_TO_SUPPLEMENT_SPACE + sup.width
                 IN  Bitmap("bitmap", <<>>, newWidth, main.height,
                            <<copyRect(0, 0, main),
                              copyRect(newWidth - sup.width, 0, sup)>>)
            ELSE main
    IN  IF titleBm # Null
        THEN LET newWidth == IF withSup.width >= titleBm.width
                             THEN withSup.width ELSE titleBm.width
                 newHeight == titleBm.height + 1 + withSup.height
             IN  Bitmap("bitmap", <<>>, newWidth, newHeight,
                        <<copyRect(TruncDiv(newWidth - titleBm.width, 2), 0,
                                   titleBm),
                          copyRect(TruncDiv(newWidth - withSup.width, 2),
                                   titleBm.height + 1, withSup)>>)
        ELSE withSup

\* What render's caller holds: nothing before the first call, then the
\* bitmap returned or the error thrown by the latest call.
NoOutcome == [called |-> FALSE]
Outcome(result) ==
    IF result.ok THEN [called |-> TRUE, ok |-> TRUE, val |-> result.val]
    ELSE [called |-> TRUE, ok |-> FALSE, err |-> result.err]

\* Barcode.render from line 55 on, the three bitmaps rendered.
renderCompose(this) ==
    [this |-> this,
     outcome |-> Outcome(Return(compose(this.mainBitmap,
                                        this.supplementBitmap,
                                        this.titleBitmap)))]

\* Barcode.render from line 53 on: s is how #renderSupplementBitmap ended.
renderFromTitle(s) ==
    IF ~s.ok THEN [this |-> s.this, outcome |-> Outcome(s)]
    ELSE renderCompose(renderTitleBitmap(s.this).this)

\* Barcode.render from line 52 on: m is how #renderMainBitmap ended.
renderFromSupplement(m) ==
    IF ~m.ok THEN [this |-> m.this, outcome |-> Outcome(m)]
    ELSE renderFromTitle(renderSupplementBitmap(m.this))

\* Barcode.render: the instance after the call and what the caller gets.
render(this) ==
    IF this.mainDigits = <<>>
    THEN [this |-> this, outcome |-> Outcome(Throw("Missing main code."))]
    ELSE renderFromSupplement(renderMainBitmap(this))

\* The instance the variables hold.
This ==
    [short |-> short, mainFormat |-> mainFormat, mainDigits |-> mainDigits,
     supplementDigits |-> supplementDigits, title |-> title,
     mainBitmap |-> mainBitmap, supplementBitmap |-> supplementBitmap,
     titleBitmap |-> titleBitmap]

IsInstance(this) ==
    /\ short = this.short
    /\ mainFormat = this.mainFormat
    /\ mainDigits = this.mainDigits
    /\ supplementDigits = this.supplementDigits
    /\ title = this.title
    /\ mainBitmap = this.mainBitmap
    /\ supplementBitmap = this.supplementBitmap
    /\ titleBitmap = this.titleBitmap

----------------------------------------------------------------------------
(* The calls on one Barcode instance *)

\* Barcode.setMainCode
SetMainCode(format, digits) ==
    /\ mainFormat' = format
    /\ mainDigits' = digits
    /\ UNCHANGED <<short, supplementDigits, title, mainBitmap,
                   supplementBitmap, titleBitmap, outcome>>
    /\ UNCHANGED <<bitmapVars, textVars, canvasVars>>

\* Barcode.setShort
SetShort(flag) ==
    /\ short' = flag
    /\ UNCHANGED <<mainFormat, mainDigits, supplementDigits, title,
                   mainBitmap, supplementBitmap, titleBitmap, outcome>>
    /\ UNCHANGED <<bitmapVars, textVars, canvasVars>>

\* Barcode.setSupplementalCode
SetSupplementalCode(digits) ==
    /\ supplementDigits' = digits
    /\ UNCHANGED <<short, mainFormat, mainDigits, title, mainBitmap,
                   supplementBitmap, titleBitmap, outcome>>
    /\ UNCHANGED <<bitmapVars, textVars, canvasVars>>

\* Barcode.setTitle
SetTitle(text) ==
    /\ title' = text
    /\ UNCHANGED <<short, mainFormat, mainDigits, supplementDigits,
                   mainBitmap, supplementBitmap, titleBitmap, outcome>>
    /\ UNCHANGED <<bitmapVars, textVars, canvasVars>>

\* Barcode.render, called by a caller that keeps the result or the error.
Render ==
    \E call \in {render(This)} :
        /\ mainBitmap' = call.this.mainBitmap
        /\ supplementBitmap' = call.this.supplementBitmap
        /\ titleBitmap' = call.this.titleBitmap
        /\ outcome' = call.outcome
        /\ UNCHANGED <<short, mainFormat, mainDigits, supplementDigits, title>>
        /\ UNCHANGED <<bitmapVars, textVars, canvasVars>>

----------------------------------------------------------------------------
(* One call of Text.makeBitmap, the loops of #wrapText step by step *)

\* No call of Text.makeBitmap is looked at.
NoText ==
    /\ textStr = <<>>
    /\ textMaxWidth = <<>>
    /\ textPc = "idle"
    /\ textLines = <<>>
    /\ textLine = <<>>
    /\ textResult = <<>>
    /\ textBitmap = Null

\* s.replaceAll(/(^\n+)|(\n+$)/g, ''): s without the newlines it begins
\* and ends with.
RECURSIVE dropTrailingNewlines(_)
dropTrailingNewlines(s) ==
    IF s # <<>> /\ s[Len(s)] = NEWLINE
    THEN dropTrailingNewlines(SubSeq(s, 1, Len(s) - 1))
    ELSE s
RECURSIVE dropLeadingNewlines(_)
dropLeadingNewlines(s) ==
    IF s # <<>> /\ Head(s) = NEWLINE THEN dropLeadingNewlines(Tail(s)) ELSE s

\* finalText of the page's text mode.
finalText(titleIn, value) ==
    dropTrailingNewlines(dropLeadingNewlines(
        (IF titleIn = <<>> THEN <<>> ELSE titleIn \o <<NEWLINE>>)
        \o (IF value = <<>> THEN <<>> ELSE value \o <<NEWLINE>>)))

\* The most fragments one call is followed for: a call that pushes more
\* is left where it is.
MaxFragments == 6

\* render() of the page in text mode, up to its call of Text.makeBitmap:
\* value is the text of the value field.
PageRenderText(titleIn) ==
    /\ textPc = "page"
    /\ textStr' = finalText(titleIn, textStr)
    /\ textMaxWidth' = <<>>
    /\ textPc' = "called"
    /\ UNCHANGED <<textLines, textLine, textResult, textBitmap>>
    /\ UNCHANGED <<barcodeVars, bitmapVars, canvasVars>>

\* Text.makeBitmap up to the for loop of #wrapText, or all of it when
\* maxWidth is null.
TextMakeBitmap ==
    /\ textPc = "called"
    /\ IF textMaxWidth # <<>>
       THEN /\ textLines' = splitLines(textStr, 0, <<>>, <<>>)
            /\ textPc' = "for"
            /\ UNCHANGED textBitmap
       ELSE /\ textBitmap' = newTextBitmap(textStr)
            /\ textPc' = "done"
            /\ UNCHANGED textLines
    /\ UNCHANGED <<textStr, textMaxWidth, textLine, textResult>>
    /\ UNCHANGED <<barcodeVars, bitmapVars, canvasVars>>

\* The for loop of #wrapText takes the next line; after the last one
\* #wrapText returns and Text.makeBitmap measures and draws.
WrapFor ==
    /\ textPc = "for"
    /\ IF textLines # <<>>
       THEN /\ textLine' = Head(textLines)
            /\ textLines' = Tail(textLines)
            /\ textPc' = "while"
            /\ UNCHANGED textBitmap
       ELSE /\ textBitmap' = newTextBitmap(joinLines(textResult))
            /\ textPc' = "done"
            /\ UNCHANGED <<textLine, textLines>>
    /\ UNCHANGED <<textStr, textMaxWidth, textResult>>
    /\ UNCHANGED <<barcodeVars, bitmapVars, canvasVars>>

\* One test of the while loop of #wrapText and the iteration it allows.
WrapWhile ==
    /\ textPc = "while"
    /\ IF textLine = <<>>
       THEN /\ textPc' = "for"
            /\ UNCHANGED <<textLine, textResult>>
       ELSE IF Len(textLine) <= maxColumns(textMaxWidth)
       THEN /\ textResult' = Append(textResult, textLine)
            /\ textPc' = "for"
            /\ UNCHANGED textLine
       ELSE /\ Len(textResult) < MaxFragments
            /\ \E frag \in {wrapFragment(textLine, maxColumns(textMaxWidth))} :
                  /\ textLine' = wrapRest(textLine, frag)
                  /\ textResult' = Append(textResult, frag)
            /\ UNCHANGED textPc
    /\ UNCHANGED <<textStr, textMaxWidth, textLines, textBitmap>>
    /\ UNCHANGED <<barcodeVars, bitmapVars, canvasVars>>

----------------------------------------------------------------------------
(* BitmapCanvas *)

\* #imageBitmap = null, and the canvas after renderCanvas() found it so:
\* cleared, nothing canvasDrawn.
NoImage == [of |-> Null]
Cleared == [image |-> NoImage, scale |-> 0, xMargin |-> 0, yMargin |-> 0]

\* A BitmapCanvas right after construction.
NoCanvas ==
    /\ canvasBitmap = Null
    /\ canvasImageBitmap = NoImage
    /\ conversions = {}
    /\ assignments = 0
    /\ canvasDrawn = Cleared

\* The ImageBitmap that createImageBitmap() resolves to for the image data
\* copied from bitmap.
createImageBitmap(bitmap) == [of |-> bitmap]

\* canvas.width and canvas.height.
CanvasWidth == 300
CanvasHeight == 150

Min(a, b) == IF a <= b THEN a ELSE b

\* BitmapCanvas.renderCanvas: what is on the canvas afterwards.
renderCanvas(imageBitmap, bitmap) ==
    IF imageBitmap = NoImage THEN Cleared
    ELSE LET scale == Min(TruncDiv(CanvasWidth, bitmap.width),
                          TruncDiv(CanvasHeight, bitmap.height))
         IN  [image |-> imageBitmap, scale |-> scale,
              xMargin |-> TruncDiv(CanvasWidth - bitmap.width * scale,
                                   2 * scale),
              yMargin |-> TruncDiv(CanvasHeight - bitmap.height * scale,
                                   2 * scale)]

\* The most assignments to BitmapCanvas.bitmap that are followed.
MaxAssignments == 3

\* set bitmap, up to its await: the field is set and a conversion is
\* started.
SetBitmap(bitmap) ==
    /\ assignments < MaxAssignments
    /\ assignments' = assignments + 1
    /\ canvasBitmap' = bitmap
    /\ conversions' = conversions
                       \cup {[assignment |-> assignments + 1, bitmap |-> bitmap]}
    /\ UNCHANGED <<canvasImageBitmap, canvasDrawn>>
    /\ UNCHANGED <<barcodeVars, bitmapVars, textVars>>

\* set bitmap, from its await on: the promise of one conversion is
\* fulfilled, the image is kept and the canvas is rendered.
ConversionDone(conversion) ==
    /\ conversion \in conversions
    /\ conversions' = conversions \ {conversion}
    /\ canvasImageBitmap' = createImageBitmap(conversion.bitmap)
    /\ canvasDrawn' = renderCanvas(createImageBitmap(conversion.bitmap), canvasBitmap)
    /\ UNCHANGED <<canvasBitmap, assignments>>
    /\ UNCHANGED <<barcodeVars, bitmapVars, textVars>>

\* The refresh timer of CanvasWrapper calls render().
Refresh ==
    /\ canvasDrawn' = renderCanvas(canvasImageBitmap, canvasBitmap)
    /\ UNCHANGED <<canvasBitmap, canvasImageBitmap, conversions, assignments>>
    /\ UNCHANGED <<barcodeVars, bitmapVars, textVars>>

----------------------------------------------------------------------------
(* The bitmap of the original program (original-code/barcode.c) *)

\* The largest and the smallest int.
MaxInt == 2 ^ 30 + (2 ^ 30 - 1)
MinInt == -MaxInt - 1

\* No Bitmap: the state of the C bitmaps while a Barcode is looked at.
NoBitmap == [width |-> 0, height |-> 0, widthBytes |-> 0, buf |-> <<>>]
NoCall == [fn |-> "none", args |-> <<>>, before |-> NoBitmap, result |-> 0]

\* makeBitmap of barcode.c.  buf comes from malloc and is not cleared: its
\* bytes are whatever the allocator left there (contents).
cMakeBitmap(width, height, contents) ==
    [width |-> width, height |-> height, widthBytes |-> (width + 7) \div 8,
     buf |-> contents]

\* x >> 3 and x & 0x7 (the shift of a negative int is arithmetic).
ShiftRight3(x) == x \div 8
And7(x) == x % 8

\* (byteValue & (1 << xbit)) >> xbit
BitOf(byteValue, xbit) == (byteValue \div (2 ^ xbit)) % 2

\* bitmapGetByte
bitmapGetByte(b, xByte, y) ==
    IF (xByte < 0) \/ (xByte >= b.widthBytes) \/ (y < 0) \/ (y >= b.height)
    THEN 0
    ELSE b.buf[b.widthBytes * y + xByte + 1]

\* bitmapGet
bitmapGet(b, x, y) ==
    BitOf(bitmapGetByte(b, ShiftRight3(x), y), And7(x))

\* bitmapSet
bitmapSet(b, x, y, value) ==
    IF (x < 0) \/ (x >= b.width) \/ (y < 0) \/ (y >= b.height)
    THEN b
    ELSE [b EXCEPT !.buf[b.widthBytes * y + ShiftRight3(x) + 1] =
              IF value # 0
              THEN IF BitOf(@, And7(x)) = 1 THEN @ ELSE @ + 2 ^ And7(x)
              ELSE IF BitOf(@, And7(x)) = 1 THEN @ - 2 ^ And7(x) ELSE @]

\* The loops of bitmapCopyRect, from (x, y) on.
RECURSIVE copyRectLoop(_, _, _, _, _, _, _, _, _, _)
copyRectLoop(d, dx, dy, s, sx, sy, width, height, x, y) ==
    IF y >= height THEN d
    ELSE IF x >= width
    THEN copyRectLoop(d, dx, dy, s, sx, sy, width, height, 0, y + 1)
    ELSE copyRectLoop(bitmapSet(d, x + dx, y + dy, bitmapGet(s, x + sx, y + sy)),
                      dx, dy, s, sx, sy, width, height, x + 1, y)

\* bitmapCopyRect
bitmapCopyRect(d, dx, dy, s, sx, sy, width, height) ==
    copyRectLoop(d, dx, dy, s, sx, sy, width, height, 0, 0)

\* bitmapVlin
RECURSIVE bitmapVlin(_, _, _, _)
bitmapVlin(b, x, y1, y2) ==
    IF y1 <= y2 THEN bitmapVlin(bitmapSet(b, x, y1, 1), x, y1 + 1, y2) ELSE b

\* The sizes of the bitmaps tried, the bytes malloc may hand out (0x00,
\* 0xff, 0xa5), and the number of calls on one bitmap.
MaxBitmapWidth == 9
MaxBitmapHeight == 2
MaxCalls == 1
FillBytes == {0, 255, 165}

\* Coordinates around the edges of b, far outside it, and the extremes.
Xs(b) == {MinInt, -9, -1, 0, b.width - 1, b.width, 8 * b.widthBytes - 1,
          8 * b.widthBytes, MaxInt}
Ys(b) == {MinInt, -1, 0, b.height - 1, b.height, MaxInt}

Called(fn, args, result) ==
    /\ calls < MaxCalls
    /\ calls' = calls + 1
    /\ lastCall' = [fn |-> fn, args |-> args, before |-> dest, result |-> result]
    /\ UNCHANGED <<src, barcodeVars, textVars, canvasVars>>

BitmapGet(x, y) ==
    /\ Called("bitmapGet", <<x, y>>, bitmapGet(dest, x, y))
    /\ UNCHANGED dest

BitmapSet(x, y, value) ==
    /\ Called("bitmapSet", <<x, y, value>>, 0)
    /\ dest' = bitmapSet(dest, x, y, value)

BitmapCopyRect(dx, dy, sx, sy, width, height) ==
    /\ Called("bitmapCopyRect", <<dx, dy, sx, sy, width, height>>, 0)
    /\ dest' = bitmapCopyRect(dest, dx, dy, src, sx, sy, width, height)

BitmapVlin(x, y1, y2) ==
    /\ Called("bitmapVlin", <<x, y1, y2>>, 0)
    /\ dest' = bitmapVlin(dest, x, y1, y2)

----------------------------------------------------------------------------
(* Inputs *)

\* The format selectors of the page (index.html), "text" among them: the
\* five that makeBarcode knows and one that it does not.
KnownFormats == {"dwim", "upcA", "upcE", "ean13", "ean8"}
Formats == KnownFormats \cup {"text"}

DigitChars == {CHAR0 + d : d \in 0..9}

\* The characters an input is varied with: the digits, '?', and the two
\* characters next to the digits in the character set ('/' and ':').
VaryChars == DigitChars \cup {QMARK, CHAR0 - 1, CHAR0 + 10}

\* Every string that differs from one of S in at most one position < upto,
\* the new character taken from chars.
VaryOne(S, chars, upto) ==
    S \cup {[s EXCEPT ![i] = c] :
               <<s, i, c>> \in {t \in S \X (1..upto) \X chars : t[2] <= Len(t[1])}}

\* The longest main code and supplement tried.
MaxLen == 14
MaxSupLen == 6

\* A digit string of each length.
Master(len) == [i \in 1..len |-> CHAR0 + ((3 * i) % 10)]

Q == <<QMARK>>
UpcADefault == DigitStr(<<6, 3, 4, 4, 7, 9, 4, 8, 9, 5, 4>>) \o Q
UpcASample == DigitStr(<<1, 2, 3, 4, 5, 6, 6, 5, 4, 3, 2>>) \o Q
UpcAZeros == DigitStr(<<1, 0, 0, 0, 0, 0, 0, 0, 0, 0, 0>>) \o Q
\* The 11 digits of UpcASample without the placeholder.
UpcASampleBare == SubSeq(UpcASample, 1, 11)
Ean13Sample == DigitStr(<<9, 7, 8, 0, 2, 0, 1, 3, 7, 9, 6, 2>>) \o Q
Ean8Sample == DigitStr(<<5, 5, 1, 2, 3, 4, 5>>) \o Q
UpcE7Sample == DigitStr(<<1, 2, 3, 4, 5, 6>>) \o Q
UpcE8Sample == DigitStr(<<0, 4, 2, 5, 2, 6, 1>>) \o Q
UpcE8One == DigitStr(<<1, 6, 5, 4, 3, 2, 3>>) \o Q
\* One 12-digit form for each branch of compressToUpcEDigits.
Upc12Five == DigitStr(<<0, 1, 2, 3, 4, 5, 0, 0, 0, 0, 5>>) \o Q
Upc12Four == DigitStr(<<0, 1, 2, 3, 4, 0, 0, 0, 0, 0, 5>>) \o Q
Upc12Three == DigitStr(<<1, 1, 2, 3, 0, 0, 0, 0, 0, 4, 5>>) \o Q
Upc12Low == DigitStr(<<0, 1, 2, 1, 0, 0, 0, 0, 3, 4, 5>>) \o Q

BaseDigits ==
    {UpcADefault, UpcASample, UpcASampleBare, UpcAZeros, Ean13Sample,
     Ean8Sample,
     UpcE7Sample, UpcE8Sample, UpcE8One,
     Upc12Five, Upc12Four, Upc12Three, Upc12Low}
    \cup {Master(len) : len \in 0..MaxLen}

\* Main codes: the base strings and every one-character variation of them,
\* and, for the checksums, every variation of three prefixes in two digits.
VariedDigits == VaryOne(BaseDigits, VaryChars, MaxLen)
TwoDigitsVaried(s) ==
    VaryOne(VaryOne({s}, DigitChars, Len(s) - 1), DigitChars, Len(s) - 1)

\* 8-character UPC-E codes X 4 2 c3 c4 c5 c6 Y: both number systems, every
\* c6, zeros and other digits at c3, c4 and c5, Y given or asked for.
GridDigits == {CHAR0, CHAR0 + 2, CHAR0 + 3, CHAR0 + 7}
UpcEGrid ==
    {<<X, CHAR0 + 4, CHAR0 + 2, c3, c4, c5, c6, Y>> :
        <<X, c3, c4, c5, c6, Y>> \in
            {CHAR0, CHAR0 + 1} \X GridDigits \X GridDigits \X GridDigits
            \X DigitChars \X {QMARK, CHAR0 + 5}}

MainCases ==
    (Formats \X VariedDigits)
    \cup ({"upcE"} \X UpcEGrid)
    \cup ({"upcA", "dwim"} \X TwoDigitsVaried(UpcADefault))
    \cup ({"ean13"} \X TwoDigitsVaried(Ean13Sample))
    \cup ({"ean8"} \X TwoDigitsVaried(Ean8Sample))

\* Supplements: a digit string of each length and their variations.
SupMaster(len) == [i \in 1..len |-> CHAR0 + ((8 * i - 4) % 10)]
VariedSupplements ==
    VaryOne({SupMaster(len) : len \in 0..MaxSupLen},
            VaryChars \cup {NEWLINE, SPACE}, MaxSupLen)

\* Main codes that render and a title-free instance around each, for the
\* supplements.
\* Every 2-digit supplement, and SupMaster(5) with up to two digits
\* changed, for the parities.
ParitySupplements ==
    {<<a, b>> : <<a, b>> \in DigitChars \X DigitChars}
    \cup VaryOne(VaryOne({SupMaster(5)}, DigitChars, 5), DigitChars, 5)

SupplementCases ==
    ({"dwim", "ean8"} \X {UpcADefault, Ean8Sample} \X VariedSupplements)
    \cup ({"dwim"} \X {UpcADefault} \X ParitySupplements)

\* 'm', the first letter of the page's default title.
LETTER == 109
\* n words of k letters, one space between them.
Words(n, k) ==
    [i \in 1..(n * (k + 1) - 1) |-> IF i % (k + 1) = 0 THEN SPACE ELSE LETTER]

\* Titles: up to MaxWords words of up to MaxWordLen letters on a line, and
\* two-line titles.
MaxWords == 6
MaxWordLen == 8
Titles ==
    {Words(n, k) : <<n, k>> \in (1..MaxWords) \X (1..MaxWordLen)}
    \cup {Words(2, k) \o <<NEWLINE>> \o Words(1, k) : k \in 1..MaxWordLen}

\* Codes of several widths, with and without a supplement, under each
\* title.
TitleCases ==
    {<<"dwim", UpcADefault>>, <<"upcE", UpcE8Sample>>,
     <<"ean13", Ean13Sample>>}
    \X {<<>>, SupMaster(2), SupMaster(5)} \X Titles

\* The calls tried on a long-lived instance.
SessionFormats == {"dwim", "ean8"}
SessionDigits == {<<>>, UpcADefault, Ean8Sample}
SessionSupplements == {<<>>, SupMaster(2), SupMaster(1) \o Q}
SessionTitles == {<<>>, Words(6, 4)}

\* The texts handed to Text.makeBitmap: every string of letters, spaces
\* and newlines up to MaxTextLen characters, the empty one among them.
MaxTextLen == 5
TextChars == {LETTER, SPACE, NEWLINE}
TextStrings == UNION {[1..n -> TextChars] : n \in 0..MaxTextLen}

\* The pixel budgets: null, and budgets of 0, 1, 2, 3 and 4 columns, on a
\* multiple of 5 and next to one.
TextMaxWidths == {<<>>} \cup {<<w>> : w \in {0, 4, 5, 9, 10, 15, 19, 20}}

\* The title field of the page in text mode.
PageTitles == {<<>>, <<LETTER>>, <<NEWLINE>>}

\* The bitmaps the page hands to its BitmapCanvas: texts of several widths.
CanvasBitmaps == {newTextBitmap(Words(1, k)) : k \in 1..3}

----------------------------------------------------------------------------
(* Specifications *)

\* One Barcode, from its construction, under any sequence of calls.
\* No C bitmap is made while a Barcode is looked at.
NoBitmaps ==
    /\ NoText
    /\ NoCanvas
    /\ dest = NoBitmap
    /\ src = NoBitmap
    /\ lastCall = NoCall
    /\ calls = 0

Init ==
    /\ IsInstance(Constructed)
    /\ outcome = NoOutcome
    /\ NoBitmaps

Next ==
    \/ \E f \in SessionFormats, d \in SessionDigits : SetMainCode(f, d)
    \/ \E b \in BOOLEAN : SetShort(b)
    \/ \E d \in SessionSupplements : SetSupplementalCode(d)
    \/ \E t \in SessionTitles : SetTitle(t)
    \/ Render

Spec == Init /\ [][Next]_vars

\* One render of one Barcode whose settings were just made: the renderer
\* as a function of (format, digits, supplement, short).
InitInputs ==
    /\ outcome = NoOutcome
    /\ NoBitmaps
    /\ \E b \in BOOLEAN :
        \/ \E c \in MainCases :
              IsInstance([Constructed EXCEPT !.short = b,
                                             !.mainFormat = c[1],
                                             !.mainDigits = c[2]])
        \/ \E c \in SupplementCases :
              IsInstance([Constructed EXCEPT !.short = b,
                                             !.mainFormat = c[1],
                                             !.mainDigits = c[2],
                                             !.supplementDigits = c[3]])
        \/ \E c \in TitleCases :
              IsInstance([Constructed EXCEPT !.short = b,
                                             !.mainFormat = c[1][1],
                                             !.mainDigits = c[1][2],
                                             !.supplementDigits = c[2],
                                             !.title = c[3]])

NextInputs == Render

SpecInputs == InitInputs /\ [][NextInputs]_vars

\* The bitmap functions of barcode.c on a bitmap just made: dest of every
\* size up to the bounds, src of one size, both with the bytes malloc left.
InitBitmap ==
    /\ NoText
    /\ NoCanvas
    /\ IsInstance(Constructed)
    /\ outcome = NoOutcome
    /\ lastCall = NoCall
    /\ calls = 0
    /\ \E w \in 1..MaxBitmapWidth, h \in 1..MaxBitmapHeight :
          \E contents \in [1..(((w + 7) \div 8) * h) -> FillBytes] :
              dest = cMakeBitmap(w, h, contents)
    /\ \E fill \in FillBytes :
          src = cMakeBitmap(3, 2, [i \in 1..2 |-> fill])

NextBitmap ==
    \/ \E x \in Xs(dest), y \in Ys(dest) : BitmapGet(x, y)
    \/ \E x \in Xs(dest), y \in Ys(dest), value \in 0..1 : BitmapSet(x, y, value)
    \/ \E dx, sx \in -1..1, dy, sy \in -1..0, width, height \in {1, 4} :
          BitmapCopyRect(dx, dy, sx, sy, width, height)
    \/ \E x \in Xs(dest), y1 \in -1..0, y2 \in 0..MaxBitmapHeight :
          BitmapVlin(x, y1, y2)

SpecBitmap == InitBitmap /\ [][NextBitmap]_vars

\* A Barcode-free, C-bitmap-free state.
NoBarcode ==
    /\ IsInstance(Constructed)
    /\ outcome = NoOutcome
    /\ dest = NoBitmap
    /\ src = NoBitmap
    /\ lastCall = NoCall
    /\ calls = 0

\* One call of Text.makeBitmap on each text and budget, and one render of
\* the page in text mode on each value.
InitText ==
    /\ NoBarcode
    /\ NoCanvas
    /\ textStr \in TextStrings
    /\ \/ textPc = "called" /\ textMaxWidth \in TextMaxWidths
       \/ textPc = "page" /\ textMaxWidth = <<>>
    /\ textLines = <<>>
    /\ textLine = <<>>
    /\ textResult = <<>>
    /\ textBitmap = Null

NextText ==
    \/ \E t \in PageTitles : PageRenderText(t)
    \/ TextMakeBitmap
    \/ WrapFor
    \/ WrapWhile

SpecText == InitText /\ [][NextText]_vars

\* One BitmapCanvas, from its construction: the page assigns bitmaps, the
\* conversions end in any order, the timer refreshes.
InitCanvas ==
    /\ NoBarcode
    /\ NoText
    /\ NoCanvas

NextCanvas ==
    \/ \E b \in CanvasBitmaps : SetBitmap(b)
    \/ \E c \in conversions : ConversionDone(c)
    \/ Refresh

SpecCanvas == InitCanvas /\ [][NextCanvas]_vars

----------------------------------------------------------------------------
(* Vocabulary of the properties *)

IsDigits(s) == \A i \in 1..Len(s) : s[i] \in DigitChars
Prefix(s) == SubSeq(s, 1, Len(s) - 1)
Final(s) == s[Len(s)]

\* n characters: digits, then a digit or the '?' placeholder.
WellFormed(s, n) ==
    Len(s) = n /\ IsDigits(Prefix(s)) /\ (Final(s) = QMARK \/ Final(s) \in DigitChars)

\* n characters: digits, then the '?' placeholder.
AsksChecksum(s, n) == WellFormed(s, n) /\ Final(s) = QMARK

\* The sum of the digits of p, those at 0-indexed even positions weighted
\* by atEven and those at odd positions by atOdd.
RECURSIVE WeightedSum(_, _, _)
WeightedSum(p, atEven, atOdd) ==
    IF p = <<>> THEN 0
    ELSE WeightedSum(Prefix(p), atEven, atOdd)
         + (Final(p) - CHAR0) * (IF (Len(p) - 1) % 2 = 0 THEN atEven ELSE atOdd)

\* c = (10 - (S mod 10)) mod 10
CheckDigit(sum) == (10 - (sum % 10)) % 10

UpcAKinds == {"upcAFull", "upcAShort"}
UpcEKinds == {"upcEFull", "upcEShort"}
Ean13Kinds == {"ean13Full", "ean13Short"}
Ean8Kinds == {"ean8Full", "ean8Short"}

\* render was called and drew the main code as one of the kinds, with
\* exactly these digits encoded and printed.
MainDrawn(kinds, digits) ==
    /\ outcome.called
    /\ mainBitmap.kind \in kinds
    /\ mainBitmap.str = digits

----------------------------------------------------------------------------
(* C1..C3: check digits *)

\* C1: a UPC-A code made from an 11-digit prefix and '?' gets the check
\* digit (10 - (S mod 10)) mod 10, S weighting positions 0,2,..,10 by 3
\* and 1,3,..,9 by 1; an EAN-8 code made from a 7-digit prefix and '?'
\* gets the same with weight 3 at 0,2,4,6 and 1 at 1,3,5; the check
\* digit is one digit 0..9.
C1_UpcAEan8Checksum ==
    outcome.called =>
        /\ (mainFormat \in {"upcA", "dwim"} /\ AsksChecksum(mainDigits, 12)) =>
              LET c == CheckDigit(WeightedSum(Prefix(mainDigits), 3, 1))
              IN  /\ c \in 0..9
                  /\ MainDrawn(UpcAKinds, Prefix(mainDigits) \o <<CHAR0 + c>>)
        /\ (mainFormat = "ean8" /\ AsksChecksum(mainDigits, 8)) =>
              LET c == CheckDigit(WeightedSum(Prefix(mainDigits), 3, 1))
              IN  /\ c \in 0..9
                  /\ MainDrawn(Ean8Kinds, Prefix(mainDigits) \o <<CHAR0 + c>>)

\* A UPC-A code whose '?' became the check digit 3, after two digits of
\* the prefix changed.
C1_Witness ==
    /\ outcome.called
    /\ mainFormat = "upcA"
    /\ AsksChecksum(mainDigits, 12)
    /\ Cardinality({i \in 1..11 : mainDigits[i] # UpcADefault[i]}) = 2
    /\ mainBitmap.kind = "upcAShort"
    /\ Final(mainBitmap.str) = CHAR0 + 3

\* C2: an EAN-13 code made from a 12-digit prefix and '?' gets the check
\* digit (10 - (S mod 10)) mod 10, S weighting positions 0,2,..,10 by 1
\* and 1,3,..,11 by 3.
C2_Ean13Checksum ==
    (outcome.called /\ mainFormat \in {"ean13", "dwim"}
                    /\ AsksChecksum(mainDigits, 13)) =>
        LET c == CheckDigit(WeightedSum(Prefix(mainDigits), 1, 3))
        IN  MainDrawn(Ean13Kinds, Prefix(mainDigits) \o <<CHAR0 + c>>)

\* An EAN-13 code whose '?' became a check digit that the UPC-A weights
\* would not give.
C2_Witness ==
    /\ outcome.called
    /\ mainFormat = "ean13"
    /\ AsksChecksum(mainDigits, 13)
    /\ mainBitmap.kind = "ean13Full"
    /\ Final(mainBitmap.str)
         = CHAR0 + CheckDigit(WeightedSum(Prefix(mainDigits), 1, 3))
    /\ Final(mainBitmap.str)
         # CHAR0 + CheckDigit(WeightedSum(Prefix(mainDigits), 3, 1))

\* The lengths each explicit format takes.
RightLength(format, n) ==
    \/ format = "upcA" /\ n = 12
    \/ format = "upcE" /\ n \in {7, 8, 12}
    \/ format = "ean13" /\ n = 13
    \/ format = "ean8" /\ n = 8

\* C3: for upcA, upcE (7, 8 or 12 digits), ean13 and ean8 and an
\* all-digit input of the right length, the final digit supplied is the
\* check digit encoded and printed, and a render that fails fails with
\* every other final digit too.
C3_SuppliedCheckDigitTrusted ==
    (/\ outcome.called
     /\ supplementDigits = <<>>
     /\ RightLength(mainFormat, Len(mainDigits))
     /\ IsDigits(mainDigits)) =>
        /\ outcome.ok =>
              /\ mainBitmap # Null
              /\ Final(mainBitmap.str) = Final(mainDigits)
        /\ ~outcome.ok =>
              \A c \in DigitChars :
                  ~makeBarcode(mainFormat, Prefix(mainDigits) \o <<c>>, short).ok

\* A UPC-A code drawn with a supplied final digit that is not the check
\* digit of its prefix.
C3_Witness ==
    /\ outcome.called
    /\ outcome.ok
    /\ mainFormat = "upcA"
    /\ IsDigits(mainDigits)
    /\ Len(mainDigits) = 12
    /\ Final(mainBitmap.str) = Final(mainDigits)
    /\ Final(mainDigits)
         # CHAR0 + CheckDigit(WeightedSum(Prefix(mainDigits), 3, 1))

----------------------------------------------------------------------------
(* C4..C8: the choice of symbology and the errors *)

\* C4: with format dwim the symbology follows from the length: 7
\* characters are drawn as UPC-E with a leading 0 put before them, 8
\* characters starting with 0 or 1 as UPC-E (never EAN-8), 12 characters
\* as UPC-A (never UPC-E, compressible or not), 13 characters as EAN-13.
C4_DwimPrecedence ==
    (outcome.called /\ mainFormat = "dwim") =>
        /\ WellFormed(mainDigits, 7) =>
              /\ mainBitmap.kind \in UpcEKinds
              /\ Len(mainBitmap.str) = 8
              /\ mainBitmap.str[1] = CHAR0
              /\ SubSeq(mainBitmap.str, 2, 7) = Prefix(mainDigits)
        /\ (WellFormed(mainDigits, 8) /\ mainDigits[1] \in {CHAR0, CHAR0 + 1}) =>
              /\ mainBitmap.kind \in UpcEKinds
              /\ Prefix(mainBitmap.str) = Prefix(mainDigits)
        /\ WellFormed(mainDigits, 12) =>
              /\ mainBitmap.kind \in UpcAKinds
              /\ Prefix(mainBitmap.str) = Prefix(mainDigits)
        /\ WellFormed(mainDigits, 13) =>
              /\ mainBitmap.kind \in Ean13Kinds
              /\ Prefix(mainBitmap.str) = Prefix(mainDigits)

\* Twelve characters that UPC-E could take, drawn under dwim as UPC-A.
C4_Witness ==
    /\ outcome.called
    /\ mainFormat = "dwim"
    /\ WellFormed(mainDigits, 12)
    /\ makeUpcE(mainDigits, short, 0, 0).ok
    /\ mainBitmap.kind = "upcAFull"

\* C5: with format dwim, 8 characters whose first digit is 2..9 are drawn
\* as EAN-8: the UPC-E attempt falls through instead of failing the render.
C5_DwimFallsThroughToEan8 ==
    (/\ outcome.called
     /\ mainFormat = "dwim"
     /\ WellFormed(mainDigits, 8)
     /\ mainDigits[1] \in {CHAR0 + d : d \in 2..9}) =>
        /\ outcome.ok
        /\ mainBitmap.kind \in Ean8Kinds

\* The lengths each format accepts.
AcceptedLengths(format) ==
    CASE format = "upcA" -> {12}
      [] format = "upcE" -> {7, 8, 12}
      [] format = "ean13" -> {13}
      [] format = "ean8" -> {8}
      [] format = "dwim" -> {7, 8, 12, 13}

\* C6: for each of the five formats, a main code whose length the format
\* does not accept, the empty one included, makes render fail with an
\* error: the caller gets no bitmap.
C6_WrongLengthFails ==
    (/\ outcome.called
     /\ mainFormat \in KnownFormats
     /\ Len(mainDigits) \notin AcceptedLengths(mainFormat)) =>
        /\ ~outcome.ok
        /\ mainBitmap = Null

\* EAN-13 asked for twelve digits: makeEan13 returned null and render
\* failed.
C6_Witness ==
    /\ outcome.called
    /\ mainFormat = "ean13"
    /\ Len(mainDigits) = 12
    /\ IsDigits(mainDigits)
    /\ ~outcome.ok
    /\ outcome.err.format = "ean13"

\* C7: with a main code that renders, render succeeds exactly when the
\* supplement is empty (and then none is drawn) or is 2 or 5 characters,
\* all digits; it fails, and gives no bitmap, for any other.
C7_SupplementAccepted ==
    (outcome.called /\ mainBitmap # Null /\ title = <<>>) =>
        /\ outcome.ok <=>
              \/ supplementDigits = <<>>
              \/ Len(supplementDigits) \in {2, 5} /\ IsDigits(supplementDigits)
        /\ (outcome.ok /\ supplementDigits = <<>>) =>
              /\ supplementBitmap = Null
              /\ outcome.val = mainBitmap
        /\ (outcome.ok /\ supplementDigits # <<>>) =>
              /\ supplementBitmap.str = supplementDigits
              /\ \E i \in DOMAIN outcome.val.rects :
                     outcome.val.rects[i].source = supplementBitmap

\* The main code rendered and a two-character supplement with a '?'
\* rejected.
C7_Witness ==
    /\ outcome.called
    /\ mainBitmap # Null
    /\ Len(supplementDigits) = 2
    /\ supplementDigits[2] = QMARK
    /\ ~outcome.ok
    /\ outcome.err.message = "Supplement must be either 2 or 5 digits."

\* C8: a render with a format outside the five known fails with an
\* 'Unknown format' error whose message names the format.
C8_UnknownFormatNamed ==
    (/\ outcome.called
     /\ mainFormat \notin KnownFormats
     /\ mainDigits # <<>>) =>
        /\ ~outcome.ok
        /\ outcome.err.name = "Error"
        /\ outcome.err.message = "Unknown format: ${format}"
        /\ outcome.err.format = mainFormat

----------------------------------------------------------------------------
(* C9: no state survives from one render to the next *)

\* A freshly constructed Barcode given the settings of this.
Fresh(this) ==
    [Constructed EXCEPT !.short = this.short,
                        !.mainFormat = this.mainFormat,
                        !.mainDigits = this.mainDigits,
                        !.supplementDigits = this.supplementDigits,
                        !.title = this.title]

\* C9: whatever calls came before, failed renders among them, the next
\* render gives the caller what a freshly constructed Barcode with the
\* same format, digits, supplement, short flag and title gives.
C9_RenderIgnoresEarlierRenders ==
    render(This).outcome = render(Fresh(This)).outcome

\* A render failed at the supplement after the main code was rendered;
\* the supplement and title bitmaps of an earlier render are still held,
\* though the supplement has changed and the title is now empty.
C9_Witness ==
    /\ outcome.called
    /\ ~outcome.ok
    /\ mainBitmap # Null
    /\ supplementBitmap # Null
    /\ supplementBitmap.str # supplementDigits
    /\ title = <<>>
    /\ titleBitmap # Null

----------------------------------------------------------------------------
(* C10: compress and expand *)

\* x is, on positions 0..10, the expansion of some 8-character code.  The
\* code's characters 0, 1, 2 and 7 are those of x (expand copies them to
\* positions 0, 1, 2 and 11); 3, 4 and 5 are looked for among the
\* characters of x, and 6 among the digits.
IsExpansion(x) ==
    LET inX == {x[i] : i \in 1..Len(x)}
    IN  \E c3 \in inX, c4 \in inX, c5 \in inX, c6 \in DigitChars :
            \E r \in {expandToUpcADigits(<<x[1], x[2], x[3], c3, c4, c5, c6, x[12]>>)} :
                r.ok /\ SubSeq(r.val, 1, 11) = SubSeq(x, 1, 11)

\* C10: when compress accepts a 12-digit x, expanding what it gave agrees
\* with x on positions 0..10; so every x it accepts is the expansion of
\* an 8-digit code, and it fails for every x that is not.
C10_ExpandAfterCompress ==
    (/\ outcome.called
     /\ outcome.ok
     /\ mainFormat = "upcE"
     /\ WellFormed(mainDigits, 12)) =>
        /\ \E r \in {expandToUpcADigits(mainBitmap.str)} :
               r.ok /\ SubSeq(r.val, 1, 11) = SubSeq(mainDigits, 1, 11)
        /\ IsExpansion(mainDigits)

\* A 12-digit code compressed by the branch that writes '3' as the last
\* explicit digit, one of its digits changed.
C10_Witness ==
    /\ outcome.called
    /\ outcome.ok
    /\ mainFormat = "upcE"
    /\ WellFormed(mainDigits, 12)
    /\ mainDigits # Upc12Three
    /\ mainBitmap.kind = "upcEFull"
    /\ mainBitmap.str[7] = CHAR0 + 3

----------------------------------------------------------------------------
(* C11..C13: check digits and the UPC-A layout *)

\* The 8 characters makeUpcE draws for a well-formed input that ends in the
\* placeholder, the placeholder still in place.
Compressed(digits) ==
    CASE Len(digits) = 7 -> <<CHAR0>> \o digits
      [] Len(digits) = 8 -> digits
      [] Len(digits) = 12 -> compressToUpcEDigits(digits).val

\* C11: a UPC-E input (7, 8 or 12 characters) that ends in '?' is drawn
\* with the UPC-A check digit of its 12-digit expanded form; for 12
\* characters that is the check digit makeUpcA gives the same input, and
\* 7 characters d are drawn as the 8 characters '0' d are.
C11_UpcEChecksum ==
    (/\ outcome.called
     /\ outcome.ok
     /\ mainFormat = "upcE"
     /\ \E n \in {7, 8, 12} : AsksChecksum(mainDigits, n)) =>
        /\ mainBitmap.kind \in UpcEKinds
        /\ Prefix(mainBitmap.str) = Prefix(Compressed(mainDigits))
        /\ \E x \in {expandToUpcADigits(Prefix(mainBitmap.str) \o <<CHAR0>>)} :
               /\ x.ok
               /\ Final(mainBitmap.str)
                    = CHAR0 + CheckDigit(WeightedSum(Prefix(x.val), 3, 1))
        /\ Len(mainDigits) = 12 =>
               \E a \in {makeUpcA(mainDigits, short, 0, 0)} :
                   a.ok /\ Final(a.val.str) = Final(mainBitmap.str)
        /\ Len(mainDigits) = 7 =>
               makeUpcE(<<CHAR0>> \o mainDigits, short, 0, 0)
                   = Return(mainBitmap)

\* A compressible 12-character input with the placeholder, drawn as UPC-E
\* with a check digit that the 7 compressed digits alone would not give.
C11_Witness ==
    /\ outcome.called
    /\ outcome.ok
    /\ mainFormat = "upcE"
    /\ AsksChecksum(mainDigits, 12)
    /\ mainBitmap.kind = "upcEFull"
    /\ Final(mainBitmap.str)
         # CHAR0 + CheckDigit(WeightedSum(Prefix(mainBitmap.str), 3, 1))

\* C12 as claimed: UPC-A made from 63447948954? gets the check digit 7.
C12_DefaultValueChecksumIs7 ==
    (/\ outcome.called
     /\ mainFormat \in {"upcA", "dwim"}
     /\ mainDigits = UpcADefault) =>
        MainDrawn(UpcAKinds, Prefix(UpcADefault) \o <<CHAR0 + 7>>)

\* C12, amended: UPC-A made from 63447948954? (the page's default value)
\* gets the check digit 9.
C12_DefaultValueChecksumIs9 ==
    (/\ outcome.called
     /\ mainFormat \in {"upcA", "dwim"}
     /\ mainDigits = UpcADefault) =>
        MainDrawn(UpcAKinds, Prefix(UpcADefault) \o <<CHAR0 + 9>>)

\* The page's default value rendered with the page's default format.
C12_Witness ==
    /\ outcome.called
    /\ outcome.ok
    /\ mainFormat = "dwim"
    /\ mainDigits = UpcADefault
    /\ ~short
    /\ mainBitmap.kind = "upcAFull"
    /\ At(mainBitmap.str, 11) = CHAR0 + 9

\* The columns of the guard bars: the vertical lines the #draw...Bars
\* method draws itself, digits apart.
GuardColumns(bitmap) == {l[1] : l \in bitmap.vlins}

\* The columns where some bar of the bitmap is black in row y.
BlackColumns(bitmap, y) ==
    {l[1] : l \in {v \in bitmap.vlins \cup UNION {digitVlins(b) : b \in bitmap.bars} :
                       v[2] <= y /\ y <= v[3]}}

\* C13 as claimed: format dwim, value 12345665432 and short = false give a
\* UPC-A bitmap at least 107 wide and 60 tall with guard bars at columns
\* 6, 8, 52, 54, 96 and 98.
C13_ScenarioAsClaimed ==
    (/\ outcome.called
     /\ mainFormat = "dwim"
     /\ mainDigits = UpcASampleBare
     /\ ~short
     /\ supplementDigits = <<>>
     /\ title = <<>>) =>
        /\ outcome.ok
        /\ outcome.val.kind \in UpcAKinds
        /\ outcome.val.width >= 107
        /\ outcome.val.height = 60
        /\ {6, 8, 52, 54, 96, 98} \subseteq GuardColumns(outcome.val)

\* C13, amended: format dwim, value 12345665432? (the 11 digits and the
\* placeholder) and short = false give a UPC-A bitmap 107 wide and 60 tall
\* whose guard bars are at columns 6, 8, 52, 54, 98 and 100, from row 0 to
\* row 56; column 96 is white.
C13_Scenario ==
    (/\ outcome.called
     /\ mainFormat = "dwim"
     /\ mainDigits = UpcASample
     /\ ~short
     /\ supplementDigits = <<>>
     /\ title = <<>>) =>
        /\ outcome.ok
        /\ outcome.val.kind = "upcAFull"
        /\ outcome.val.str = UpcASampleBare \o <<CHAR0 + 7>>
        /\ outcome.val.width = 107
        /\ outcome.val.height = 60
        /\ outcome.val.vlins = {vlin(x, 0, 56) : x \in {6, 8, 52, 54, 98, 100}}
        /\ \A y \in 0..59 : 96 \notin BlackColumns(outcome.val, y)
        /\ \A y \in 0..56 :
               {6, 8, 52, 54, 98, 100} \subseteq BlackColumns(outcome.val, y)

\* The scenario rendered: the trailer's second bar is at column 100.
C13_Witness ==
    /\ outcome.called
    /\ outcome.ok
    /\ mainFormat = "dwim"
    /\ mainDigits = UpcASample
    /\ ~short
    /\ outcome.val.kind = "upcAFull"
    /\ 100 \in GuardColumns(outcome.val)

----------------------------------------------------------------------------
(* C14..C16: the composition *)

\* copyRect copies pixel by pixel and a new Bitmap is blank, so a pixel of
\* a composed bitmap is the pixel of the last rectangle copied over it, or
\* blank.  CopiedFrom is <<i, sx, sy>> when pixel (x, y) of bitmap is pixel
\* (sx, sy) of the source of its i-th copyRect, and <<>> when the pixel is
\* blank or lies outside the bitmap.
CopiedFrom(bitmap, x, y) ==
    LET over == {i \in DOMAIN bitmap.rects :
                    /\ bitmap.rects[i].destX <= x
                    /\ x < bitmap.rects[i].destX + bitmap.rects[i].width
                    /\ bitmap.rects[i].destY <= y
                    /\ y < bitmap.rects[i].destY + bitmap.rects[i].height}
    IN  IF x < 0 \/ x >= bitmap.width \/ y < 0 \/ y >= bitmap.height
           \/ over = {}
        THEN <<>>
        ELSE LET i == CHOOSE k \in over : \A j \in over : j <= k
             IN  <<i, x - bitmap.rects[i].destX + bitmap.rects[i].srcX,
                   y - bitmap.rects[i].destY + bitmap.rects[i].srcY>>

Max(a, b) == IF a >= b THEN a ELSE b

\* C14: with a supplement and no title the image is main.width + 8 +
\* supplement.width wide and max(main.height, supplement.height) tall;
\* every pixel of the main code is at its own place, every pixel of the
\* supplement is in the last supplement.width columns, and the 8 columns
\* between are blank.
C14_SupplementComposition ==
    (/\ outcome.called
     /\ outcome.ok
     /\ supplementDigits # <<>>
     /\ title = <<>>) =>
        /\ outcome.val.width
             = mainBitmap.width + 8 + supplementBitmap.width
        /\ outcome.val.height
             = Max(mainBitmap.height, supplementBitmap.height)
        /\ \E im, is \in DOMAIN outcome.val.rects :
              /\ outcome.val.rects[im].source = mainBitmap
              /\ outcome.val.rects[is].source = supplementBitmap
              /\ \A x \in 0..(mainBitmap.width - 1),
                    y \in 0..(mainBitmap.height - 1) :
                     CopiedFrom(outcome.val, x, y) = <<im, x, y>>
              /\ \A x \in 0..(supplementBitmap.width - 1),
                    y \in 0..(supplementBitmap.height - 1) :
                     CopiedFrom(outcome.val,
                                outcome.val.width - supplementBitmap.width + x,
                                y) = <<is, x, y>>
              /\ \A x \in mainBitmap.width..(mainBitmap.width + 7),
                    y \in 0..(outcome.val.height - 1) :
                     CopiedFrom(outcome.val, x, y) = <<>>

\* A full-height UPC-A code with a 5-digit supplement: 107 + 8 + 47 columns.
C14_Witness ==
    /\ outcome.called
    /\ outcome.ok
    /\ title = <<>>
    /\ Len(supplementDigits) = 5
    /\ mainBitmap.kind = "upcAFull"
    /\ supplementBitmap.kind = "supplementAbove"
    /\ outcome.val.width = 162
    /\ outcome.val.height = 60

\* The width of the code that render composes: the main code, or the main
\* code, 8 columns and the supplement.
CodeWidth ==
    IF supplementDigits # <<>>
    THEN mainBitmap.width + 8 + supplementBitmap.width
    ELSE mainBitmap.width

\* 133% of the code width, in whole pixels.
Wider == (CodeWidth * 133) \div 100

\* C15 as claimed: a title that, unwrapped, is narrower than the code is
\* wrapped to a budget of 133% of the code width.
C15_NarrowerTitleGets133 ==
    (/\ outcome.called
     /\ outcome.ok
     /\ title # <<>>
     /\ measureText(title).width < CodeWidth) =>
        finalWidth(This) = Wider

\* C15, amended: a title that, unwrapped, is wider than the code is
\* rendered wrapped to a budget of 133% of the code width (in whole
\* pixels); a title that is not wider is rendered wrapped to the code
\* width.
C15_WiderTitleGets133 ==
    (/\ outcome.called
     /\ outcome.ok
     /\ title # <<>>) =>
        /\ measureText(title).width > CodeWidth =>
              /\ finalWidth(This) = Wider
              /\ titleBitmap = makeBitmap(title, <<Wider>>)
        /\ measureText(title).width <= CodeWidth =>
              /\ finalWidth(This) = CodeWidth
              /\ titleBitmap = makeBitmap(title, <<CodeWidth>>)

\* A title wider than the code, wrapped into lines that the code width
\* would not hold but 133% of it does.
C15_Witness ==
    /\ outcome.called
    /\ outcome.ok
    /\ title # <<>>
    /\ measureText(title).width > CodeWidth
    /\ titleBitmap.str # title
    /\ titleBitmap.width > CodeWidth
    /\ titleBitmap.width <= Wider

\* C16: with a title the image is max(code width, wrapped title width)
\* wide and title.height + 1 + code.height tall; the title is at y = 0 and
\* the code at y = title.height + 1, each at x = floor((width - its own
\* width) / 2) >= 0; every pixel of each is at its place and the row
\* between them is blank.
C16_TitleComposition ==
    (/\ outcome.called
     /\ outcome.ok
     /\ title # <<>>) =>
        /\ outcome.val.width = Max(CodeWidth, titleBitmap.width)
        /\ outcome.val.height = titleBitmap.height + 1 + mainBitmap.height
        /\ \E it, ic \in DOMAIN outcome.val.rects,
              tx, cx \in 0..outcome.val.width :
              /\ tx = (outcome.val.width - titleBitmap.width) \div 2
              /\ cx = (outcome.val.width - CodeWidth) \div 2
              /\ outcome.val.rects[it].source = titleBitmap
              /\ outcome.val.rects[ic].source
                   = compose(mainBitmap, supplementBitmap, Null)
              /\ \A x \in 0..(titleBitmap.width - 1),
                    y \in 0..(titleBitmap.height - 1) :
                     CopiedFrom(outcome.val, tx + x, y) = <<it, x, y>>
              /\ \A x \in 0..(CodeWidth - 1),
                    y \in 0..(mainBitmap.height - 1) :
                     CopiedFrom(outcome.val, cx + x,
                                titleBitmap.height + 1 + y) = <<ic, x, y>>
              /\ \A x \in 0..(outcome.val.width - 1) :
                     CopiedFrom(outcome.val, x, titleBitmap.height) = <<>>

\* A wrapped title wider than the code under it: the code is moved right
\* to the centre, the title is not.
C16_Witness ==
    /\ outcome.called
    /\ outcome.ok
    /\ title # <<>>
    /\ supplementDigits # <<>>
    /\ titleBitmap.height > 8
    /\ titleBitmap.width > CodeWidth
    /\ outcome.val.rects[1].destX = 0
    /\ outcome.val.rects[2].destX > 0

----------------------------------------------------------------------------
(* C17..C19: parity patterns *)

\* The bar sets of the digits of a bitmap, from left to right.
Parities(bitmap) ==
    [k \in 1..Cardinality(bitmap.bars) |->
        (CHOOSE b \in bitmap.bars :
             Cardinality({c \in bitmap.bars : c.x < b.x}) = k - 1).barSet]

\* The table entries of the digits of a bitmap, from left to right.
Patterns(bitmap) ==
    [k \in 1..Cardinality(bitmap.bars) |->
        (CHOOSE b \in bitmap.bars :
             Cardinality({c \in bitmap.bars : c.x < b.x}) = k - 1).bits]

AB(isB) == IF isB THEN "leftB" ELSE "leftA"

\* The supplement was rendered by the latest render from the digits set.
SupplementDrawn(n) ==
    /\ outcome.called
    /\ Len(supplementDigits) = n
    /\ supplementBitmap # Null
    /\ supplementBitmap.str = supplementDigits

\* C17: a 2-digit supplement d0 d1 has the parity value (10 d0 + d1) mod 4;
\* d0 is drawn with Left-B exactly when that value is 2 or 3 (bit 1) and
\* d1 exactly when it is 1 or 3 (bit 0), else with Left-A; 42 is drawn
\* b a.
C17_TwoDigitParity ==
    SupplementDrawn(2) =>
        LET d0 == supplementDigits[1] - CHAR0
            d1 == supplementDigits[2] - CHAR0
            v == (10 * d0 + d1) % 4
        IN  /\ Parities(supplementBitmap) = <<AB(v \in {2, 3}), AB(v \in {1, 3})>>
            /\ Patterns(supplementBitmap)
                 = <<IF v \in {2, 3} THEN upcLeftB[d0 + 1] ELSE upcLeftA[d0 + 1],
                     IF v \in {1, 3} THEN upcLeftB[d1 + 1] ELSE upcLeftA[d1 + 1]>>
            /\ supplementDigits = DigitStr(<<4, 2>>) =>
                   Parities(supplementBitmap) = <<"leftB", "leftA">>

\* The supplement 42 drawn b a.
C17_Witness ==
    /\ SupplementDrawn(2)
    /\ supplementDigits = DigitStr(<<4, 2>>)
    /\ Parities(supplementBitmap) = <<"leftB", "leftA">>

\* The "first digit 0" UPC-E parity table of the documentation, one row
\* for each final digit 0..9, 1 for b and 0 for a.
UpcEParityTable ==
    << <<1, 1, 1, 0, 0, 0>>, <<1, 1, 0, 1, 0, 0>>, <<1, 1, 0, 0, 1, 0>>,
       <<1, 1, 0, 0, 0, 1>>, <<1, 0, 1, 1, 0, 0>>, <<1, 0, 0, 1, 1, 0>>,
       <<1, 0, 0, 0, 1, 1>>, <<1, 0, 1, 0, 1, 0>>, <<1, 0, 1, 0, 0, 1>>,
       <<1, 0, 0, 1, 0, 1>> >>

\* C18: a 5-digit supplement d0..d4 has the parity digit
\* p = ((d0 + d2 + d4) * 3 + (d1 + d3) * 9) mod 10, and digit i is drawn
\* with Left-B exactly when bit 4 - i of the last-digit table entry for p
\* is set: the last five positions of the "first digit 0" UPC-E pattern
\* of p.
C18_FiveDigitParity ==
    SupplementDrawn(5) =>
        LET d(i) == supplementDigits[i + 1] - CHAR0
            p == ((d(0) + d(2) + d(4)) * 3 + (d(1) + d(3)) * 9) % 10
        IN  /\ Parities(supplementBitmap)
                 = [k \in 1..5 |-> AB(BitSet(upcELastDigit[p + 1], 5 - k))]
            /\ Parities(supplementBitmap)
                 = [k \in 1..5 |-> AB(UpcEParityTable[p + 1][k + 1] = 1)]

\* A 5-digit supplement whose parity digit the weights 3 and 1 would not
\* give, drawn with the pattern of its parity digit.
C18_Witness ==
    /\ SupplementDrawn(5)
    /\ LET d(i) == supplementDigits[i + 1] - CHAR0
           p == ((d(0) + d(2) + d(4)) * 3 + (d(1) + d(3)) * 9) % 10
           q == ((d(0) + d(2) + d(4)) * 3 + (d(1) + d(3)) * 1) % 10
       IN  /\ p # q
           /\ Parities(supplementBitmap)
                = [k \in 1..5 |-> AB(UpcEParityTable[p + 1][k + 1] = 1)]

\* The parity pattern #drawUpcEBars draws for a leading and a check digit.
UpcEPattern(lead, check) ==
    Parities(Drawn(Null,
                   drawUpcEBars(DigitStr(<<lead, 0, 0, 0, 0, 0, 0, check>>),
                                0, 0, 0, 0),
                   {}))

UpcEPatternsDistinct ==
    \A p, q \in (0..1) \X (0..9) :
        p # q => UpcEPattern(p[1], p[2]) # UpcEPattern(q[1], q[2])

\* C19: in a UPC-E barcode the explicit digit i (0..5) is drawn with
\* Left-B exactly when bit 5 - i of the last-digit table entry for the
\* check digit is 1 and the leading digit is 0, or that bit is 0 and the
\* leading digit is 1; three digits are Left-B and three Left-A; the 20
\* pairs of leading and check digit have 20 different patterns.
C19_UpcEParity ==
    (outcome.called /\ mainBitmap.kind \in UpcEKinds) =>
        LET lead == mainBitmap.str[1] - CHAR0
            check == mainBitmap.str[8] - CHAR0
            pattern == Parities(mainBitmap)
        IN  /\ lead \in {0, 1}
            /\ check \in 0..9
            /\ pattern
                 = [k \in 1..6 |->
                       AB(BitSet(upcELastDigit[check + 1], 6 - k) <=> lead = 0)]
            /\ pattern
                 = [k \in 1..6 |->
                       AB((UpcEParityTable[check + 1][k] = 1) <=> lead = 0)]
            /\ Cardinality({k \in 1..6 : pattern[k] = "leftB"}) = 3
            /\ Cardinality({k \in 1..6 : pattern[k] = "leftA"}) = 3
            /\ UpcEPatternsDistinct

\* A UPC-E code with the leading digit 1 drawn with the complement of the
\* pattern of its check digit.
C19_Witness ==
    /\ outcome.called
    /\ mainBitmap.kind \in UpcEKinds
    /\ mainBitmap.str[1] = CHAR0 + 1
    /\ Parities(mainBitmap)
         = [k \in 1..6 |->
               AB(UpcEParityTable[mainBitmap.str[8] - CHAR0 + 1][k] = 0)]
    /\ Parities(mainBitmap)[1] = "leftA"

----------------------------------------------------------------------------
(* C20: the bounds of a bitmap *)

Outside(b, x, y) == x < 0 \/ x >= b.width \/ y < 0 \/ y >= b.height

\* The pixel (x, y) of b, for (x, y) inside b: bit x mod 8 of byte x div 8
\* of row y.
Pixel(b, x, y) ==
    (b.buf[b.widthBytes * y + (x \div 8) + 1] \div (2 ^ (x % 8))) % 2

PixelOrZero(b, x, y) == IF Outside(b, x, y) THEN 0 ELSE Pixel(b, x, y)

Inside(b) == (0..(b.width - 1)) \X (0..(b.height - 1))

\* C20: a read outside [0, width) x [0, height) gives 0 and a write
\* outside changes no pixel, for any coordinates; bitmapCopyRect gives
\* each pixel of dest it covers the pixel of src it comes from, 0 if that
\* lies outside src, and leaves the others, and bitmapVlin sets the pixels
\* of its line that lie inside and leaves the others.
C20_BoundsSafety ==
    LET before == lastCall.before
        a == lastCall.args
    IN  /\ lastCall.fn = "bitmapGet" =>
              lastCall.result = PixelOrZero(before, a[1], a[2])
        /\ (lastCall.fn = "bitmapSet" /\ Outside(before, a[1], a[2])) =>
              \A p \in Inside(before) :
                  Pixel(dest, p[1], p[2]) = Pixel(before, p[1], p[2])
        /\ lastCall.fn = "bitmapCopyRect" =>
              \A p \in Inside(before) :
                  Pixel(dest, p[1], p[2])
                    = IF /\ a[1] <= p[1] /\ p[1] < a[1] + a[5]
                         /\ a[2] <= p[2] /\ p[2] < a[2] + a[6]
                      THEN PixelOrZero(src, p[1] - a[1] + a[3],
                                       p[2] - a[2] + a[4])
                      ELSE Pixel(before, p[1], p[2])
        /\ lastCall.fn = "bitmapVlin" =>
              \A p \in Inside(before) :
                  Pixel(dest, p[1], p[2])
                    = IF p[1] = a[1] /\ a[2] <= p[2] /\ p[2] <= a[3]
                      THEN 1
                      ELSE Pixel(before, p[1], p[2])

----------------------------------------------------------------------------
(* Text: dimensions and wrapping *)

\* C21: every bitmap the text renderer creates has width >= 0 and height
\* >= 0: for every string, the empty one and those made of newlines among
\* them, Text.measureText gives a non-negative width and Text.makeBitmap
\* asks for no bitmap with a negative dimension.
C21_NonNegativeDimensions ==
    textPc = "done" =>
        /\ measureText(textStr).width >= 0
        /\ measureText(textStr).height >= 0
        /\ textBitmap.width >= 0
        /\ textBitmap.height >= 0

\* The lines of a text.
Lines(str) == splitLines(str, 0, <<>>, <<>>)

\* C24: for every text and every column budget maxColumns >= 1, every line
\* of the wrapped text has at most maxColumns characters (a word longer
\* than the budget is hard-cut at maxColumns); so a bitmap made by
\* Text.makeBitmap(str, maxWidth) with maxWidth >= 5 is never wider than
\* maxWidth pixels.
C24_WrappedWithinBudget ==
    (textMaxWidth # <<>> /\ maxColumns(textMaxWidth) >= 1) =>
        /\ \A i \in 1..Len(textResult) :
              Len(textResult[i]) <= maxColumns(textMaxWidth)
        /\ textPc = "done" =>
              /\ \A i \in 1..Len(Lines(textBitmap.str)) :
                    Len(Lines(textBitmap.str)[i]) <= maxColumns(textMaxWidth)
              /\ textBitmap.width <= textMaxWidth[1]
              /\ textBitmap = makeBitmap(textStr, textMaxWidth)

\* A word of five letters wrapped to two columns: cut into lines of two,
\* two and one letters, in a bitmap of 9 pixels for a budget of 10.
C24_Witness ==
    /\ textPc = "done"
    /\ textStr = Words(1, 5)
    /\ textMaxWidth = <<10>>
    /\ textResult = <<Words(1, 2), Words(1, 2), Words(1, 1)>>
    /\ textBitmap.width = 9

\* The longest prefix of line that has at most max characters and is
\* followed by a space or by the end of the line; the first max characters
\* when there is none.
GreedyFragment(line, max) ==
    LET ends == {n \in 0..Min(max, Len(line)) :
                    n = Len(line) \/ line[n + 1] = SPACE}
    IN  IF ends = {} THEN Slice(line, 0, max)
        ELSE SubSeq(line, 1, CHOOSE n \in ends : \A m \in ends : m <= n)

\* Words with one space between them, none before or after.
SingleSpaced(line) ==
    /\ line # <<>>
    /\ line[1] # SPACE
    /\ line[Len(line)] # SPACE
    /\ \A i \in 1..(Len(line) - 1) : line[i] # SPACE \/ line[i + 1] # SPACE

\* C25: word wrap is greedy: for every line longer than maxColumns, each
\* fragment pushed is the longest prefix of the remaining text that has at
\* most maxColumns characters and ends at a word boundary, and the first
\* maxColumns characters only when there is no such boundary.  Stated for
\* remaining texts of single-spaced words, whose word boundaries are
\* beyond doubt.
C25_Greedy ==
    [][(/\ textPc = "while"
        /\ SingleSpaced(textLine)
        /\ Len(textLine) > maxColumns(textMaxWidth)) =>
          textResult' = Append(textResult,
                               GreedyFragment(textLine, maxColumns(textMaxWidth)))]_vars

\* C29: Text.makeBitmap(str, maxWidth) terminates for every string and
\* every maxWidth >= 0: every iteration of the wrap loop that goes on to
\* another leaves a strictly shorter line, for every column budget, 0
\* among them.
C29_LoopShortensLine ==
    [][(textPc = "while" /\ textPc' = "while") =>
          Len(textLine') < Len(textLine)]_vars

----------------------------------------------------------------------------
(* C22: the pattern tables *)

\* The 7 bits of n, each bar a space and each space a bar.
Complement7(n) == 127 - n

\* The 7 bits of n read from right to left.
Reverse7(n) ==
    LET bit(i) == (n \div (2 ^ i)) % 2
    IN  64 * bit(0) + 32 * bit(1) + 16 * bit(2) + 8 * bit(3) + 4 * bit(4)
        + 2 * bit(5) + bit(6)

\* The right-hand digits drawn in a bitmap.
RightBars(bitmap) == {bar \in bitmap.bars : bar.barSet = "right"}

\* C22 as claimed: for every digit d in 0..9 the Right pattern of d is the
\* 7-bit-reversed bitwise complement of the Left-A pattern of d, in the
\* table and in every right-hand digit drawn.
C22_RightIsReversedComplement ==
    /\ \A d \in 0..9 :
          At(upcRight, d) = Reverse7(Complement7(At(upcLeftA, d)))
    /\ outcome.called =>
          \A bar \in RightBars(mainBitmap) :
              bar.bits = Reverse7(Complement7(At(upcLeftA, charToDigit(bar.n))))

\* C22, amended: for every digit d in 0..9 the Right pattern of d is the
\* 7-bit bitwise complement of the Left-A pattern of d (not reversed), in
\* the table and in every right-hand digit drawn.
C22_RightIsComplement ==
    /\ \A d \in 0..9 : At(upcRight, d) = Complement7(At(upcLeftA, d))
    /\ outcome.called =>
          \A bar \in RightBars(mainBitmap) :
              bar.bits = Complement7(At(upcLeftA, charToDigit(bar.n)))

\* A UPC-A code drawn with six different digits on its right-hand side.
C22_Witness ==
    /\ outcome.called
    /\ mainBitmap.kind \in UpcAKinds
    /\ Cardinality({bar.n : bar \in RightBars(mainBitmap)}) = 6

----------------------------------------------------------------------------
(* C23: the UPC-E expansion table *)

\* Positions 0..10 of the 12-digit form the table gives the 8 characters
\* X c1 c2 c3 c4 c5 c6 Y.
TableExpansion(code) ==
    LET X == code[1]
        c1 == code[2]
        c2 == code[3]
        c3 == code[4]
        c4 == code[5]
        c5 == code[6]
        c6 == code[7]
        z == CHAR0
    IN  CASE c6 \in {CHAR0, CHAR0 + 1, CHAR0 + 2} ->
               <<X, c1, c2, c6, z, z, z, z, c3, c4, c5>>
          [] c6 = CHAR0 + 3 -> <<X, c1, c2, c3, z, z, z, z, z, c4, c5>>
          [] c6 = CHAR0 + 4 -> <<X, c1, c2, c3, c4, z, z, z, z, z, c5>>
          [] OTHER -> <<X, c1, c2, c3, c4, c5, z, z, z, z, c6>>

\* C23: for every 8-character code X c1 c2 c3 c4 c5 c6 Y with X 0 or 1,
\* expand gives the 12-digit form fixed by c6 (0..2: X c1 c2 c6 0000 c3 c4
\* c5 Y; 3: X c1 c2 c3 00000 c4 c5 Y; 4: X c1 c2 c3 c4 00000 c5 Y; 5..9:
\* X c1 c2 c3 c4 c5 0000 c6 Y), positions 6 and 7 of it are 0, a final
\* digit Y is kept, and expand is rejected when X is not 0 or 1.
C23_ExpansionTable ==
    (outcome.called /\ WellFormed(mainDigits, 8)) =>
        \E r \in {expandToUpcADigits(mainDigits)} :
            IF mainDigits[1] \in {CHAR0, CHAR0 + 1}
            THEN /\ r.ok
                 /\ Len(r.val) = 12
                 /\ SubSeq(r.val, 1, 11) = TableExpansion(mainDigits)
                 /\ At(r.val, 6) = CHAR0
                 /\ At(r.val, 7) = CHAR0
                 /\ Final(mainDigits) # QMARK => Final(r.val) = Final(mainDigits)
            ELSE ~r.ok

\* A UPC-E code whose c6 is 3, drawn with the check digit of its expansion
\* X c1 c2 c3 00000 c4 c5.
C23_Witness ==
    /\ outcome.called
    /\ outcome.ok
    /\ mainFormat = "upcE"
    /\ AsksChecksum(mainDigits, 8)
    /\ At(mainDigits, 6) = CHAR0 + 3
    /\ mainBitmap.kind \in UpcEKinds
    /\ Final(mainBitmap.str)
         = CHAR0 + CheckDigit(WeightedSum(TableExpansion(mainDigits), 3, 1))

----------------------------------------------------------------------------
(* C26: EAN-13 with a leading 0 and UPC-A *)

\* The 95 modules of a UPC-A or EAN-13 bitmap, from its first guard bar
\* on, in the row where the bars begin: TRUE for a bar, FALSE for a space.
Modules(bitmap) ==
    LET row == (CHOOSE v \in bitmap.vlins : TRUE)[2]
        first == CHOOSE c \in GuardColumns(bitmap) :
                     \A e \in GuardColumns(bitmap) : c <= e
    IN  [m \in 0..94 |-> (first + m) \in BlackColumns(bitmap, row)]

\* C26: an EAN-13 barcode whose first digit is 0 is the UPC-A barcode of
\* its other 12 digits: for an 11-digit prefix p the check digit of '0' p
\* '?' as EAN-13 is the check digit of p '?' as UPC-A, all six left-hand
\* digits use Left-A, and the 95 modules of the two barcodes are the same.
C26_Ean13WithZeroIsUpcA ==
    (/\ outcome.called
     /\ mainFormat \in {"ean13", "dwim"}
     /\ AsksChecksum(mainDigits, 13)
     /\ mainDigits[1] = CHAR0) =>
        /\ mainBitmap.kind \in Ean13Kinds
        /\ \E a \in {makeUpcA(Tail(mainDigits), short, 0, 0)} :
              /\ a.ok
              /\ a.val.kind \in UpcAKinds
              /\ Final(mainBitmap.str) = Final(a.val.str)
              /\ Tail(mainBitmap.str) = a.val.str
              /\ Modules(mainBitmap) = Modules(a.val)
        /\ \A k \in 1..6 : Parities(mainBitmap)[k] = "leftA"

\* An EAN-13 code with a leading 0, a digit of the sample changed, drawn
\* with bars in its 95 modules.
C26_Witness ==
    /\ outcome.called
    /\ outcome.ok
    /\ mainFormat = "ean13"
    /\ AsksChecksum(mainDigits, 13)
    /\ mainDigits[1] = CHAR0
    /\ Cardinality({i \in 2..12 : mainDigits[i] # Ean13Sample[i]}) = 1
    /\ mainBitmap.kind = "ean13Full"
    /\ Cardinality({m \in 0..94 : Modules(mainBitmap)[m]}) > 30

----------------------------------------------------------------------------
(* C27: compress after expand *)

\* C27: for every 8-digit UPC-E code c with leading digit 0 or 1,
\* compress(expand(c)) succeeds and expand(compress(expand(c))) agrees
\* with expand(c) on positions 0..10.
C27_CompressAfterExpand ==
    (/\ outcome.called
     /\ WellFormed(mainDigits, 8)
     /\ mainDigits[1] \in {CHAR0, CHAR0 + 1}) =>
        \E x \in {expandToUpcADigits(mainDigits)} :
            /\ x.ok
            /\ \E c \in {compressToUpcEDigits(x.val)} :
                  /\ c.ok
                  /\ \E y \in {expandToUpcADigits(c.val)} :
                        /\ y.ok
                        /\ SubSeq(y.val, 1, 11) = SubSeq(x.val, 1, 11)

\* A code written with c6 = 4 and c4 = 0, drawn as UPC-E: compress gives
\* its expansion back as another code, written with c6 = 3.
C27_Witness ==
    /\ outcome.called
    /\ outcome.ok
    /\ mainFormat = "upcE"
    /\ WellFormed(mainDigits, 8)
    /\ mainBitmap.kind \in UpcEKinds
    /\ At(mainDigits, 6) = CHAR0 + 4
    /\ At(mainDigits, 4) = CHAR0
    /\ \E c \in {compressToUpcEDigits(expandToUpcADigits(mainDigits).val)} :
          c.ok /\ At(c.val, 6) = CHAR0 + 3 /\ c.val # mainBitmap.str

----------------------------------------------------------------------------
(* C28: bars and digit characters *)

\* Every vertical line drawn in a bitmap: the guards and the bars of the
\* digits; those with y1 > y2 draw nothing.
AllVlins(bitmap) ==
    {v \in bitmap.vlins \cup UNION {digitVlins(b) : b \in bitmap.bars} :
        v[2] <= v[3]}

\* The line v is inside the bitmap.
VlinInside(v, bitmap) ==
    /\ 0 <= v[1] /\ v[1] < bitmap.width
    /\ 0 <= v[2] /\ v[3] < bitmap.height

\* The line v has a pixel in the 5-by-8 cell that drawChar5x8 copies to
\* (ch.x, ch.y).
VlinInCell(v, ch) ==
    /\ ch.x <= v[1] /\ v[1] <= ch.x + 4
    /\ v[2] <= ch.y + 7 /\ ch.y <= v[3]

BarsClearOfDigits(bitmap) ==
    \A v \in AllVlins(bitmap) :
        /\ VlinInside(v, bitmap)
        /\ \A ch \in bitmap.chars : ~VlinInCell(v, ch)

\* C28: in every barcode rendered (UPC-A, UPC-E, EAN-13, EAN-8 and both
\* supplements, full and short height) every bar pixel lies inside the
\* bitmap, and the 5x8 cell of every digit character is disjoint from
\* every bar pixel.
C28_BarsClearOfDigits ==
    outcome.called =>
        /\ mainBitmap # Null => BarsClearOfDigits(mainBitmap)
        /\ supplementBitmap # Null => BarsClearOfDigits(supplementBitmap)

\* A full-height UPC-A code with a 5-digit supplement: guard bars reach
\* down into the rows of the digit characters, in other columns.
C28_Witness ==
    /\ outcome.called
    /\ outcome.ok
    /\ mainBitmap.kind = "upcAFull"
    /\ supplementBitmap # Null
    /\ Len(supplementBitmap.str) = 5
    /\ Cardinality(supplementBitmap.chars) = 5
    /\ \E v \in AllVlins(mainBitmap), ch \in mainBitmap.chars :
          v[2] <= ch.y + 7 /\ ch.y <= v[3]

----------------------------------------------------------------------------
(* C30: the image a BitmapCanvas holds *)

\* C30: for any sequence of assignments to BitmapCanvas.bitmap and any
\* order in which the conversions end, once no conversion is pending the
\* image held for drawing is the conversion of the bitmap assigned last,
\* so renderCanvas draws no older image with the newer bitmap's size.
C30_LatestImageHeld ==
    (assignments > 0 /\ conversions = {}) =>
        /\ canvasImageBitmap = createImageBitmap(canvasBitmap)
        /\ canvasDrawn = renderCanvas(createImageBitmap(canvasBitmap),
                                      canvasBitmap)
====
